---- MODULE Spec2Model ----
(***************************************************************************)
(* Distributed Inference Mesh (powernode-dim): orchestrator job lifecycle, *)
(* daemon job queue, model cache, resource manager and pattern engines.    *)
(*                                                                         *)
(* Each component owns a group of variables.  A component's specification  *)
(* (SpecOrch, SpecQueue, ...) runs that component's operations from its    *)
(* constructor state and holds the other components at their constructor   *)
(* state.                                                                  *)
(*                                                                         *)
(* Scheduling is asyncio's: a coroutine runs until an await that really    *)
(* suspends, so one action is the code between two suspension points.      *)
(***************************************************************************)
EXTENDS Integers, Sequences, FiniteSets, TLC

VARIABLES
    \* DIMOrchestrator
    active_jobs,      \* job_id -> JobState, or "absent" when not in the dict
    exec_task,        \* job_id -> position of the execute_job task
    job_updates,      \* messages published on dim.jobs.updates (at-least-once)
    assigned,         \* job ids handed to a peer orchestrator
    saved_specs,      \* job ids whose spec save_job_spec persisted
    local_job_count,  \* OrchestratorCoordinator.local_job_count
    submits,          \* number of submit_job calls so far
    last_submit,      \* the last submit_job call: its spec and its outcome
    publish_calls,    \* job_id -> the event types publish_job_event was called with
    job_results,      \* job_id -> active_jobs[job_id].result: "None" or a result
    \* JobQueue
    queues,           \* band -> sequence of queued jobs, head first
    enq_count,        \* number of successful and refused enqueue calls so far
    enq_order,        \* band -> jobs in the order enqueue appended them
    deq_order,        \* band -> jobs in the order dequeue returned them
    last_dequeue,     \* the last dequeue: the band served and the queues before it
    \* ModelCache
    cached_models,    \* model_id -> [present, size, last_used]
    model_file,       \* model_id -> size of cache_dir/model_id/model.bin, -1 if missing
    clock,            \* time.time(), as a counter
    added_at,         \* model_id -> clock at which get_model last added its entry
    last_eviction,    \* the last pass of evict_if_needed that evicted: cache before, order
    cache_task,       \* task -> [pc, model]: a task's position inside get_model
    fetching,         \* model_id -> number of download_model calls in flight
    loop_owner,       \* the task running inside get_model, "none" when it yielded
    \* ResourceManager and the host it polls
    rm_active_jobs,   \* ResourceManager.active_jobs
    host_memory_gb,   \* psutil.virtual_memory().used, in GB
    host_cpu_percent, \* psutil.cpu_percent()
    accept_result,    \* what the last can_accept_job call returned
    \* DIMDaemon
    daemon_jobs,      \* DIMDaemon.active_jobs: job_id -> status, "absent" if not in it
    cancel_queued,    \* history: the jobs cancel_job was called for while queued
    resubmits,        \* history: submit_job calls for a job_id already in active_jobs
    dispatcher_job,   \* the job process_jobs is executing, 0 while it waits in dequeue
    submit_result,    \* how the submit_job call just made ended, "none" after any other step
    total_jobs,       \* stats['total_jobs']
    \* ChainedEngine.execute on one job
    ch_spec,          \* the job spec: pipeline, error_handling, input_data
    ch_status,        \* "new", "running", "awaiting", "returned", "raised"
    ch_step,          \* index in the pipeline of the step being executed
    ch_previous,      \* previous_output
    ch_results,       \* results, one entry per completed step
    ch_sent,          \* the job specs handed to send_to_daemon, in order
    ch_failures,      \* send_to_daemon calls of the current step that raised
    ch_final,         \* what aggregate_results returned
    \* CollaborativeEngine.execute on one job
    co_spec,          \* the job spec: which config fields it has, how many nodes
    co_status,        \* "new", "gathering", "returned", "raised"
    co_results,       \* node index -> "none", "pending", "ok", "error"
    co_final,         \* what aggregate_results returned
    \* NodeRegistryManager, NodeDiscovery, NodeSelector
    reg_now,          \* datetime.now(), in units of 30 seconds
    registry_cache,   \* local_cache.nodes: node_id -> NodeInfo, NoNode if not in it
    cache_loaded,     \* local_cache is not None
    last_update,      \* NodeRegistryManager.last_update
    registry_ipns,    \* the registry published under the IPNS name
    ipns_published,   \* the IPNS name resolves to a registry
    discovered_nodes, \* NodeDiscovery.discovered_nodes: node_id -> last_seen, -1 if not in it
    last_sweep,       \* when _cleanup_stale_nodes last woke up
    active_result,    \* what get_active_nodes just returned, and when
    select_result,    \* what select_nodes just returned, and for what
    marked_inactive,  \* history: nodes the sweeper marked inactive, no heartbeat since
    \* RateLimiter
    rl_now,           \* time.time(), in ticks
    buckets,          \* identifier -> [exists, tokens, last_refill]
    accepted_at,      \* identifier -> time -> requests of cost 1 accepted then
    last_check,       \* what the last check_rate_limit call returned
    \* AgentManager.run_inference on one job, and the child it spawns
    agent_pc,         \* "idle", "poll", "timeout", "after_term", "finally", "returned"
    agent_timeout,    \* the timeout argument, in seconds
    agent_clock,      \* time.time() - start_time, in whole seconds
    agent_elapsed,    \* elapsed, as last measured by the polling loop
    result_queue,     \* "empty", or what the child put: "result" or "error"
    agent_result,     \* result: "none" until the loop took it from the queue
    child,            \* "none", "alive", "zombie" (dead, not waited for), "reaped"
    child_signals,    \* the signals sent to the child
    active_agents,    \* job_id in AgentManager.active_agents
    agent_outcome,    \* "none", "result", "RuntimeError", "TimeoutError"
    agent_returned_at, \* agent_clock when run_inference returned or raised
    \* OrchestratorCoordinator of this orchestrator, and a peer's
    coord_now,        \* datetime.now(), in seconds
    known_order,      \* the keys of known_orchestrators, in insertion order
    known_seen,       \* known_orchestrators: peer -> last_seen, -1 if not in it
    select_pc,        \* "idle", or "waiting" inside select_orchestrator_for_job
    select_active,    \* active_orchestrators of the call in progress
    select_started,   \* when the call in progress began to wait
    coord_selected,   \* the last select_orchestrator_for_job return, with the facts then
    peer_received,    \* job ids of the job_assignment messages a peer handled
    \* A chained job run by execute_job
    cancel_sent,      \* steps dispatched when cancel_job was called on the running job, -1 before
    \* ConnectionPool
    pool_now,         \* datetime.now()
    pools,            \* endpoint -> list of pooled channels
    channel_metadata, \* channel -> available, last_used, endpoint; present FALSE if no entry
    channel_healthy,  \* channel -> its connectivity state is READY or IDLE
    channels_created, \* how many channels _create_channel has made
    last_get,         \* the last get_channel call: what it returned, and the pool it met
    held,             \* pooled channel -> get_channel calls that returned it, not yet returned
    \* DIMDaemon.execute_job on one job at a time
    ex_pc,            \* "idle", "get_model" (awaiting model_cache.get_model), "done"
    ex_spec,          \* the job_spec of the call
    ex_outcome,       \* how the call ended: the error raised, what the agent was given
    ex_count,         \* calls made so far
    \* Redelivery on the pubsub topics
    ingest,           \* the message handled last and how often in a row
    ingest_view,      \* what its first handling left
    \* JobQueue.dequeue as a coroutine of process_jobs
    deq_pc,           \* "idle", "waiting" in condition.wait(), "notified" by an enqueue
    deq_returned,     \* the job dequeue returned last, 0 before any, -1 for (None, None)
    \* OrchestratorCoordinator.start / stop and its _heartbeat_loop tasks
    coord_running,    \* self.running
    hb_loops,         \* task -> "none", "created", "sleeping" or "ended"
    hb_beats          \* the tasks that published a heartbeat since the last start()

orchVars == <<active_jobs, exec_task, job_updates, assigned, saved_specs,
              local_job_count, submits, last_submit, publish_calls, job_results>>

queueVars == <<queues, enq_count, enq_order, deq_order, last_dequeue>>

cacheVars == <<cached_models, model_file, clock, cache_task, fetching, loop_owner,
               added_at, last_eviction>>

rmVars == <<rm_active_jobs, host_memory_gb, host_cpu_percent, accept_result>>

daemonVars == <<daemon_jobs, dispatcher_job, cancel_queued, resubmits,
                submit_result, total_jobs>>

chainVars == <<ch_spec, ch_status, ch_step, ch_previous, ch_results, ch_sent,
               ch_failures, ch_final>>

collabVars == <<co_spec, co_status, co_results, co_final>>

engineVars == <<chainVars, collabVars>>

registryVars == <<reg_now, registry_cache, cache_loaded, last_update,
                  registry_ipns, ipns_published, discovered_nodes, last_sweep,
                  active_result, select_result, marked_inactive>>

rateVars == <<rl_now, buckets, accepted_at, last_check>>

agentVars == <<agent_pc, agent_timeout, agent_clock, agent_elapsed,
               result_queue, agent_result, child, child_signals, active_agents,
               agent_outcome, agent_returned_at>>

coordVars == <<coord_now, known_order, known_seen, select_pc, select_active,
               select_started, coord_selected, peer_received>>

pipeVars == <<cancel_sent>>

poolVars == <<pool_now, pools, channel_metadata, channel_healthy,
              channels_created, last_get, held>>

execVars == <<ex_pc, ex_spec, ex_outcome, ex_count>>

ingestVars == <<ingest, ingest_view>>

waitVars == <<deq_pc, deq_returned>>

loopVars == <<coord_running, hb_loops, hb_beats>>

laterVars == <<waitVars, loopVars>>

lateVars == <<ingestVars, laterVars>>

sideVars == <<agentVars, coordVars, pipeVars, poolVars, execVars, lateVars>>

meshVars == <<registryVars, rateVars, sideVars>>

vars == <<orchVars, queueVars, cacheVars, rmVars, daemonVars, engineVars,
          meshVars>>

----------------------------------------------------------------------------
(* Bounds: how many jobs, calls, models, steps and nodes a run has, and the  *)
(* configured limits (max_queue_size, max_cache_gb, max_concurrent_jobs),  *)
(* set small.                                                              *)

MaxJobs == 2

MaxSubmits == 3

MaxEnqueues == 4

max_size == 3

MaxModels == 3

MaxClock == 5

max_cache_size == 4

max_concurrent_jobs == 2

MaxDaemonJobs == 3

MaxResubmits == 1

MaxCancels == 1

MaxAgentTimeout == 2

MaxCoordTime == 6

orchestrator_heartbeat_timeout == 3

MaxPoolTime == 2

MaxExecutions == 3

MaxChannels == 3

max_connections == 2

idle_timeout == 1

MaxSteps == 3

MaxNodes == 3

MaxTime == 6

MaxUpsertTime == 2

MaxLoops == 4

MaxRateTime == 4

TicksPerSecond == 2

burst_size == 2

----------------------------------------------------------------------------
(* DIMOrchestrator: orchestrator/src/orchestrator.py *)

JobIds == 1..MaxJobs

TerminalStates == {"COMPLETED", "FAILED", "CANCELLED"}

JobStates == {"PENDING", "RUNNING"} \cup TerminalStates

Patterns == {"collaborative", "comparative", "chained"}

\* A JobSpec as validation sees it.  items is len(config.nodes) for
\* collaborative, len(config.model_ids) for comparative, len(config.pipeline)
\* for chained, -1 when the config has no such list; has_target is model_id
\* (collaborative) or node_id (comparative); has_method is aggregation.method
\* or consensus.method; numbered says the pipeline steps are numbered 1..N.
JobSpecs == [pattern : Patterns, items : {-1, 1, 2, 3}, has_target : BOOLEAN,
             has_method : BOOLEAN, numbered : BOOLEAN]

NoSpec == [pattern |-> "none", items |-> -1, has_target |-> FALSE,
           has_method |-> FALSE, numbered |-> FALSE]

NoSubmit == [spec |-> NoSpec, result |-> "none"]

OrchInit ==
    /\ active_jobs = [j \in JobIds |-> "absent"]
    /\ exec_task = [j \in JobIds |-> "none"]
    /\ job_updates = {}
    /\ assigned = {}
    /\ saved_specs = {}
    /\ local_job_count = 0
    /\ submits = 0
    /\ last_submit = NoSubmit
    /\ publish_calls = [j \in JobIds |-> <<>>]
    /\ job_results = [j \in JobIds |-> "None"]

\* validate_spec: the pattern is known and its list has at least two
\* entries; a config without the list raises inside the try and is invalid.
validate_spec(spec) ==
    /\ spec.pattern \in Patterns
    /\ spec.items >= 2

\* len(self.active_jobs)
active_job_count(jobs) == Cardinality({j \in JobIds : jobs[j] # "absent"})

\* A submit_job that persists the spec before it validates it.
persist_spec_early(saved, j, valid) == saved \cup {j}

\* submit_job, the place of save_job_spec: after the validation raise.
persist_spec(saved, j, valid) == IF valid THEN saved \cup {j} ELSE saved

\* update_job_state: the in-memory part; the state is overwritten whatever
\* the job's current state is, and only when the job is in active_jobs.
update_job_state(jobs, j, state) ==
    IF jobs[j] # "absent" THEN [jobs EXCEPT ![j] = state] ELSE jobs

\* The result a pattern engine returns for a job.
EngineResult == "R"

\* The data execute_job hands to publish_job_event: the engine's result
\* itself with 'completed', {'error': error_msg} with 'failed'.
event_data(event_type) == IF event_type = "completed" THEN "result" ELSE "error"

\* The keys of a message's data: those of the dict an engine's
\* aggregate_results returns, of {'error': ...}, or of a dict that wraps a
\* result under 'result'.
data_keys(data) ==
    IF data = "result" THEN {"pattern", "job_id", "aggregation", "nodes_used"}
    ELSE IF data = "error" THEN {"error"}
    ELSE {"result"}

\* data.get('result')
data_get_result(data) == IF "result" \in data_keys(data) THEN EngineResult ELSE "None"

\* update_job_state(job_id, state, result=result): setattr on the entry.
set_result(results, jobs, j, result) ==
    IF jobs[j] # "absent" THEN [results EXCEPT ![j] = result] ELSE results

\* publish_job_event: pubsub.publish swallows its errors, so the message is
\* either on the topic or lost.
publish_job_event(msgs, j, event_type, delivered) ==
    IF delivered THEN msgs \cup {<<j, event_type, event_data(event_type)>>} ELSE msgs

\* The calls of publish_job_event so far, with the one just made.
publish_called(calls, j, event_type) == [calls EXCEPT ![j] = Append(@, event_type)]

\* submit_job: a fresh job id; ValueError when validate_spec rejects the
\* spec; save_job_spec (its exception leaves the call); PENDING entry;
\* update_job_count; then an assignment to a peer or a local execute_job
\* task.
submit_job(j, spec, save_ok, to_peer) ==
    LET valid == validate_spec(spec) IN
    /\ active_jobs[j] = "absent"
    /\ submits < MaxSubmits
    /\ submits' = submits + 1
    /\ UNCHANGED <<publish_calls, job_results>>
    /\ saved_specs' = persist_spec(saved_specs, j, valid /\ save_ok)
    /\ last_submit' = [spec |-> spec,
                       result |-> IF ~valid THEN "INVALID_SPEC"
                                  ELSE IF ~save_ok THEN "save_error"
                                  ELSE "job_id"]
    /\ IF ~valid \/ ~save_ok
       THEN UNCHANGED <<active_jobs, exec_task, job_updates, assigned,
                        local_job_count>>
       ELSE /\ active_jobs' = [active_jobs EXCEPT ![j] = "PENDING"]
            /\ local_job_count' = active_job_count(active_jobs')
            /\ IF to_peer
               THEN /\ assigned' = assigned \cup {j}
                    /\ UNCHANGED exec_task
               ELSE /\ exec_task' = [exec_task EXCEPT ![j] = "created"]
                    /\ UNCHANGED assigned
            /\ UNCHANGED job_updates

\* execute_job up to its first suspension: update_job_state(RUNNING), then
\* the engine call.  A failing persist goes to the except branch at once.
execute_job_start(j, persist_ok, refail_ok, delivered) ==
    /\ exec_task[j] = "created"
    /\ IF persist_ok
       THEN /\ active_jobs' = update_job_state(active_jobs, j, "RUNNING")
            /\ exec_task' = [exec_task EXCEPT ![j] = "engine"]
            /\ UNCHANGED <<job_updates, publish_calls>>
       ELSE /\ active_jobs' = update_job_state(
                 update_job_state(active_jobs, j, "RUNNING"), j, "FAILED")
            /\ exec_task' = [exec_task EXCEPT ![j] = "done"]
            /\ job_updates' = IF refail_ok
                              THEN publish_job_event(job_updates, j, "failed", delivered)
                              ELSE job_updates
            /\ publish_calls' = IF refail_ok
                                THEN publish_called(publish_calls, j, "failed")
                                ELSE publish_calls
    /\ UNCHANGED <<assigned, saved_specs, local_job_count, submits, last_submit,
                   job_results>>

\* execute_job after pattern_engine.execute returns or raises: save result,
\* update_job_state(COMPLETED), publish; any exception goes to the except
\* branch: update_job_state(FAILED), publish failed.
\* outcome: "ok", "engine_error", "save_error", "persist_error".
execute_job_finish(j, outcome, refail_ok, delivered) ==
    /\ exec_task[j] = "engine"
    /\ exec_task' = [exec_task EXCEPT ![j] = "done"]
    /\ IF outcome = "ok"
       THEN /\ active_jobs' = update_job_state(active_jobs, j, "COMPLETED")
            /\ job_updates' = publish_job_event(job_updates, j, "completed", delivered)
            /\ publish_calls' = publish_called(publish_calls, j, "completed")
       ELSE /\ active_jobs' =
                 IF outcome = "persist_error"
                 THEN update_job_state(
                        update_job_state(active_jobs, j, "COMPLETED"), j, "FAILED")
                 ELSE update_job_state(active_jobs, j, "FAILED")
            /\ job_updates' = IF refail_ok
                              THEN publish_job_event(job_updates, j, "failed", delivered)
                              ELSE job_updates
            /\ publish_calls' = IF refail_ok
                                THEN publish_called(publish_calls, j, "failed")
                                ELSE publish_calls
    /\ job_results' = IF outcome \in {"ok", "persist_error"}
                      THEN set_result(job_results, active_jobs, j, EngineResult)
                      ELSE job_results
    /\ UNCHANGED <<assigned, saved_specs, local_job_count, submits, last_submit>>

\* cancel_job: False when the job is unknown, else update_job_state(CANCELLED).
cancel_job(j) ==
    /\ active_jobs' = update_job_state(active_jobs, j, "CANCELLED")
    /\ UNCHANGED <<exec_task, job_updates, assigned, saved_specs,
                   local_job_count, submits, last_submit, publish_calls, job_results>>

\* A handler that moves the job one state forward on every event instead
\* of setting the state the event names.
handle_job_update_advancing(m) ==
    /\ m \in job_updates
    /\ active_jobs' =
         IF active_jobs[m[1]] = "PENDING"
         THEN [active_jobs EXCEPT ![m[1]] = "RUNNING"]
         ELSE IF active_jobs[m[1]] = "RUNNING" /\ m[2] \in {"completed", "failed"}
              THEN [active_jobs EXCEPT ![m[1]] =
                       IF m[2] = "completed" THEN "COMPLETED" ELSE "FAILED"]
              ELSE active_jobs
    /\ UNCHANGED <<exec_task, job_updates, assigned, saved_specs,
                   local_job_count, submits, last_submit, publish_calls, job_results>>

\* _handle_job_update: a message of the topic is handed to the handler; the
\* topic delivers at least once, so the message stays deliverable.
handle_job_update(m) ==
    /\ m \in job_updates
    /\ active_jobs' =
         IF active_jobs[m[1]] # "absent"
         THEN IF m[2] = "completed"
              THEN [active_jobs EXCEPT ![m[1]] = "COMPLETED"]
              ELSE IF m[2] = "failed"
                   THEN [active_jobs EXCEPT ![m[1]] = "FAILED"]
                   ELSE active_jobs
         ELSE active_jobs
    /\ job_results' =
         IF active_jobs[m[1]] # "absent" /\ m[2] = "completed"
         THEN [job_results EXCEPT ![m[1]] = data_get_result(m[3])]
         ELSE job_results
    /\ UNCHANGED <<exec_task, job_updates, assigned, saved_specs,
                   local_job_count, submits, last_submit, publish_calls>>

Outcomes == {"ok", "engine_error", "save_error", "persist_error"}

SubmitJob == \E j \in JobIds, spec \in JobSpecs, save_ok \in BOOLEAN,
                to_peer \in BOOLEAN :
                submit_job(j, spec, save_ok, to_peer)

ExecuteJobStart == \E j \in JobIds, p \in BOOLEAN, r \in BOOLEAN, d \in BOOLEAN :
                      execute_job_start(j, p, r, d)

ExecuteJobFinish == \E j \in JobIds, o \in Outcomes, r \in BOOLEAN, d \in BOOLEAN :
                       execute_job_finish(j, o, r, d)

CancelJob == \E j \in JobIds : cancel_job(j)

HandleJobUpdate == \E m \in job_updates : handle_job_update(m)

----------------------------------------------------------------------------
(* JobQueue: daemon/src/job_queue.py *)

BandSet == {"high", "normal", "low"}

\* Priorities a job_spec may carry; "urgent" stands for any unknown value.
Priorities == BandSet \cup {"urgent", "missing"}

QueueInit ==
    /\ queues = [b \in BandSet |-> <<>>]
    /\ enq_count = 0
    /\ enq_order = [b \in BandSet |-> <<>>]
    /\ deq_order = [b \in BandSet |-> <<>>]
    /\ last_dequeue = [band |-> "none", before |-> [b \in BandSet |-> <<>>]]

\* size(): total over the three deques.
size(qs) == Len(qs["high"]) + Len(qs["normal"]) + Len(qs["low"])

\* enqueue, band choice: job_spec.get('priority', 'normal'), unknown -> normal.
band_of(priority) == IF priority \in BandSet THEN priority ELSE "normal"

\* A deque that takes new jobs at the left end.
append_job_left(q, job) == <<job>> \o q

\* enqueue, the deque operation: append at the right end.
append_job(q, job) == Append(q, job)

\* A band scan in the order low, normal, high.
first_band_reversed(qs) ==
    IF qs["low"] # <<>> THEN "low"
    ELSE IF qs["normal"] # <<>> THEN "normal"
    ELSE IF qs["high"] # <<>> THEN "high"
    ELSE "none"

\* dequeue, the band scan: the first non-empty band in high, normal, low.
first_band(qs) ==
    IF qs["high"] # <<>> THEN "high"
    ELSE IF qs["normal"] # <<>> THEN "normal"
    ELSE IF qs["low"] # <<>> THEN "low"
    ELSE "none"

\* dequeue, the deque operation: popleft returns the left end.
popleft_job(q) == Head(q)

popleft_rest(q) == Tail(q)

\* enqueue(job_id, job_spec): QueueFullError when size() >= max_size.
enqueue(job, priority) ==
    /\ enq_count < MaxEnqueues
    /\ enq_count' = enq_count + 1
    /\ IF size(queues) >= max_size
       THEN UNCHANGED <<queues, enq_order>>
       ELSE /\ queues' = [queues EXCEPT ![band_of(priority)] =
                              append_job(@, job)]
            /\ enq_order' = [enq_order EXCEPT ![band_of(priority)] =
                              Append(@, job)]
    /\ UNCHANGED <<deq_order, last_dequeue>>

\* dequeue(): waits while the queue is empty, then pops the first band.
dequeue ==
    /\ size(queues) # 0
    /\ LET b == first_band(queues) IN
         /\ queues' = [queues EXCEPT ![b] = popleft_rest(@)]
         /\ deq_order' = [deq_order EXCEPT ![b] = Append(@, popleft_job(queues[b]))]
         /\ last_dequeue' = [band |-> b, before |-> queues]
    /\ UNCHANGED <<enq_count, enq_order>>

\* The dequeue coroutine of process_jobs, the only caller of dequeue.
WaitInit ==
    /\ deq_pc = "idle"
    /\ deq_returned = 0

\* An enqueue that leaves the condition alone.
condition_notify_nobody(pc) == pc

\* enqueue's self.condition.notify(): wakes the waiter, if there is one.
condition_notify(pc) == IF pc = "waiting" THEN "notified" ELSE pc

\* dequeue from the test of its while loop on, the lock held: wait on the
\* condition while size() == 0, else pop the first non-empty band; the
\* (None, None) after the scan when no band held a job.
dequeue_loop ==
    IF size(queues) = 0
    THEN /\ deq_pc' = "waiting"
         /\ UNCHANGED <<queueVars, deq_returned>>
    ELSE /\ deq_pc' = "idle"
         /\ IF first_band(queues) = "none"
            THEN deq_returned' = -1 /\ UNCHANGED queueVars
            ELSE /\ dequeue
                 /\ deq_returned' = popleft_job(queues[first_band(queues)])

\* process_jobs calls dequeue().
dequeue_call ==
    /\ deq_pc = "idle"
    /\ dequeue_loop

\* condition.wait() returns in the notified waiter, which holds the lock
\* again and tests the loop condition.
dequeue_wake ==
    /\ deq_pc = "notified"
    /\ dequeue_loop

\* enqueue with its notify: a successful enqueue wakes the waiter.
enqueue_notify(job, priority) ==
    /\ enqueue(job, priority)
    /\ deq_pc' = IF size(queues) >= max_size THEN deq_pc
                 ELSE condition_notify(deq_pc)
    /\ UNCHANGED deq_returned

----------------------------------------------------------------------------
(* ModelCache: daemon/src/model_cache.py *)

ModelIds == 1..MaxModels

\* Sizes a model.bin found in the cache directory may have.
FileSizes == {0, 2, 3}

\* The tasks that call get_model: the dispatcher (execute_job) and the
\* prewarmer (_prewarm_popular_models, _periodic_prewarming).
CacheTasks == {"dispatcher", "prewarmer"}

NoEntry == [present |-> FALSE, size |-> 0, last_used |-> 0]

\* __init__: an empty dict over whatever the cache directory already holds.
CacheIdle ==
    /\ cached_models = [m \in ModelIds |-> NoEntry]
    /\ clock = 0
    /\ cache_task = [t \in CacheTasks |-> [pc |-> "idle", model |-> 0]]
    /\ fetching = [m \in ModelIds |-> 0]
    /\ loop_owner = "none"
    /\ added_at = [m \in ModelIds |-> 0]
    /\ last_eviction = [before |-> [m \in ModelIds |-> NoEntry], order |-> <<>>]

CacheInit ==
    /\ CacheIdle
    /\ model_file \in [ModelIds -> {-1} \cup FileSizes]

RECURSIVE SumSizes(_, _)
SumSizes(cache, ms) ==
    IF ms = {} THEN 0
    ELSE LET m == CHOOSE x \in ms : TRUE
         IN  (IF cache[m].present THEN cache[m].size ELSE 0)
             + SumSizes(cache, ms \ {m})

\* sum(m['size'] for m in self.cached_models.values())
current_size(cache) == SumSizes(cache, ModelIds)

\* The 90% threshold that ends an eviction pass.
under_threshold(sz) == sz * 10 <= max_cache_size * 9

\* models_by_age sorted newest first.
models_by_age_newest(cache, present) ==
    CHOOSE x \in present : \A o \in present : cache[x].last_used >= cache[o].last_used

\* The next entry of models_by_age = sorted(..., key=last_used): the oldest
\* of the entries not yet deleted.
models_by_age_head(cache, present) ==
    CHOOSE x \in present : \A o \in present : cache[x].last_used <= cache[o].last_used

\* The loop of evict_if_needed over models_by_age (oldest last_used first):
\* remove the file, delete the entry, stop once under the threshold.
\* order is the sequence of model ids in which the entries were deleted.
RECURSIVE evict_loop(_, _, _)
evict_loop(cache, files, sz) ==
    LET present == {m \in ModelIds : cache[m].present} IN
    IF present = {} THEN [cache |-> cache, files |-> files, order |-> <<>>]
    ELSE LET m == models_by_age_head(cache, present)
             cache2 == [cache EXCEPT ![m] = NoEntry]
             files2 == [files EXCEPT ![m] = -1]
             sz2 == sz - cache[m].size
         IN  IF under_threshold(sz2)
             THEN [cache |-> cache2, files |-> files2, order |-> <<m>>]
             ELSE LET r == evict_loop(cache2, files2, sz2)
                  IN  [r EXCEPT !.order = <<m>> \o @]

\* evict_if_needed: nothing unless the total exceeds max_cache_size.
evict_if_needed(cache, files) ==
    IF current_size(cache) > max_cache_size
    THEN evict_loop(cache, files, current_size(cache))
    ELSE [cache |-> cache, files |-> files, order |-> <<>>]

\* What an evict_if_needed call over cache leaves on record.
eviction_record(cache, ev) ==
    IF ev.order = <<>> THEN last_eviction
    ELSE [before |-> cache, order |-> ev.order]

\* download_model's temp_file.touch(): creates an empty file, keeps an
\* existing one as it is.
touch(files, m) == IF files[m] = -1 THEN [files EXCEPT ![m] = 0] ELSE files

\* A download_model that awaits the network gives the event loop away.
download_yields(t) == "none"

\* Who holds the event loop once download_model was entered: the caller,
\* because download_model contains no await that suspends.
download_holder(t) == t

\* get_model, from the call to the entry into download_model: a hit
\* refreshes last_used and returns when the file exists; a hit on a missing
\* file drops the entry and falls through to the download.
get_model_begin(t, m) ==
    /\ loop_owner = "none"
    /\ cache_task[t].pc = "idle"
    /\ clock < MaxClock
    /\ IF cached_models[m].present /\ model_file[m] # -1
       THEN /\ cached_models' = [cached_models EXCEPT ![m].last_used = clock + 1]
            /\ clock' = clock + 1
            /\ UNCHANGED <<cache_task, fetching, loop_owner>>
       ELSE /\ cached_models' = [cached_models EXCEPT ![m] = NoEntry]
            /\ clock' = IF cached_models[m].present THEN clock + 1 ELSE clock
            /\ cache_task' = [cache_task EXCEPT ![t] = [pc |-> "download", model |-> m]]
            /\ fetching' = [fetching EXCEPT ![m] = @ + 1]
            /\ loop_owner' = download_holder(t)
    /\ UNCHANGED <<model_file, added_at, last_eviction>>

\* get_model, from the return of download_model to its own return:
\* evict_if_needed, then the new entry with the file's size.
get_model_end(t) ==
    /\ cache_task[t].pc = "download"
    /\ loop_owner \in {t, "none"}
    /\ LET m == cache_task[t].model
           files1 == touch(model_file, m)
           ev == evict_if_needed(cached_models, files1)
       IN  /\ cached_models' = [ev.cache EXCEPT ![m] =
                 [present |-> TRUE,
                  size |-> IF ev.files[m] = -1 THEN 0 ELSE ev.files[m],
                  last_used |-> clock + 1]]
           /\ model_file' = ev.files
           /\ fetching' = [fetching EXCEPT ![m] = @ - 1]
           /\ added_at' = [added_at EXCEPT ![m] = clock + 1]
           /\ last_eviction' = eviction_record(cached_models, ev)
    /\ clock' = clock + 1
    /\ cache_task' = [cache_task EXCEPT ![t] = [pc |-> "idle", model |-> 0]]
    /\ loop_owner' = "none"

\* evict_if_needed called on its own.
evict_call ==
    /\ loop_owner = "none"
    /\ LET ev == evict_if_needed(cached_models, model_file)
       IN  /\ cached_models' = ev.cache
           /\ model_file' = ev.files
           /\ last_eviction' = eviction_record(cached_models, ev)
    /\ UNCHANGED <<clock, cache_task, fetching, loop_owner, added_at>>

----------------------------------------------------------------------------
(* ResourceManager: daemon/src/resource_manager.py *)

max_memory_gb == 64

max_cpu_percent == 80

\* Readings psutil may give: below, at and above the two thresholds.
MemoryReadings == {10, 57, 58}

CpuReadings == {50, 80, 81}

RMInit ==
    /\ rm_active_jobs = 0
    /\ host_memory_gb = 10
    /\ host_cpu_percent = 50
    /\ accept_result = "none"

\* can_accept_job: the job-count limit, then memory (90% of max_memory_gb),
\* then CPU.
can_accept_job(active, mem, cpu) ==
    IF active >= max_concurrent_jobs THEN FALSE
    ELSE IF mem * 10 > max_memory_gb * 9 THEN FALSE
    ELSE IF cpu > max_cpu_percent THEN FALSE
    ELSE TRUE

\* reserve_resources: active_jobs += 1.
reserve_resources(active) == active + 1

\* release_resources: active_jobs -= 1 when it is positive.
release_resources(active) == IF active > 0 THEN active - 1 ELSE active

\* The host's load changes under the daemon.
host_load(mem, cpu) ==
    /\ host_memory_gb' = mem
    /\ host_cpu_percent' = cpu
    /\ UNCHANGED <<rm_active_jobs, accept_result>>

rm_can_accept ==
    /\ accept_result' =
         IF can_accept_job(rm_active_jobs, host_memory_gb, host_cpu_percent)
         THEN "accept" ELSE "refuse"
    /\ UNCHANGED <<rm_active_jobs, host_memory_gb, host_cpu_percent>>

rm_reserve ==
    /\ rm_active_jobs <= max_concurrent_jobs + 1
    /\ rm_active_jobs' = reserve_resources(rm_active_jobs)
    /\ UNCHANGED <<host_memory_gb, host_cpu_percent, accept_result>>

rm_release ==
    /\ rm_active_jobs' = release_resources(rm_active_jobs)
    /\ UNCHANGED <<host_memory_gb, host_cpu_percent, accept_result>>

----------------------------------------------------------------------------
(* DIMDaemon: daemon/src/daemon.py *)

DaemonJobIds == 1..MaxDaemonJobs

DaemonInit ==
    /\ daemon_jobs = [j \in DaemonJobIds |-> "absent"]
    /\ dispatcher_job = 0
    /\ cancel_queued = {}
    /\ resubmits = 0
    /\ submit_result = "none"
    /\ total_jobs = 0

\* A submit_job that tracks the job before it enqueues it.
track_job_early(jobs, j, full) == [jobs EXCEPT ![j] = "queued"]

\* submit_job, the active_jobs entry: written after enqueue, so not at all
\* when enqueue raised QueueFullError.
track_job(jobs, j, full) ==
    IF full THEN jobs ELSE [jobs EXCEPT ![j] = "queued"]

\* submit_job: ResourceError unless can_accept_job; QueueFullError from
\* enqueue when the queue is full; else the job is queued and tracked.
\* The job_id is the one the job_spec carries: an id that is already in
\* active_jobs is enqueued again and its entry replaced by a queued one.
\* Nothing in the daemon calls reserve_resources or release_resources.
daemon_submit_job(j, priority) ==
    /\ daemon_jobs[j] # "absent" => resubmits < MaxResubmits
    /\ resubmits' = IF daemon_jobs[j] # "absent" THEN resubmits + 1 ELSE resubmits
    /\ accept_result' =
         IF can_accept_job(rm_active_jobs, host_memory_gb, host_cpu_percent)
         THEN "accept" ELSE "refuse"
    /\ UNCHANGED <<rm_active_jobs, host_memory_gb, host_cpu_percent>>
    /\ IF ~can_accept_job(rm_active_jobs, host_memory_gb, host_cpu_percent)
       THEN /\ submit_result' = "ResourceError"
            /\ UNCHANGED <<queueVars, daemon_jobs, dispatcher_job, cancel_queued,
                           total_jobs>>
       ELSE /\ enqueue(j, priority)
            /\ submit_result' = IF size(queues) >= max_size
                                THEN "QueueFullError" ELSE "queued"
            /\ daemon_jobs' = track_job(daemon_jobs, j, size(queues) >= max_size)
            /\ total_jobs' = IF size(queues) >= max_size
                             THEN total_jobs ELSE total_jobs + 1
            /\ cancel_queued' = IF size(queues) >= max_size
                                THEN cancel_queued
                                ELSE cancel_queued \ {j}
            /\ UNCHANGED dispatcher_job

\* process_jobs, from dequeue to the call of execute_job: the job returned
\* by dequeue is marked running.
process_jobs_dequeue ==
    /\ dispatcher_job = 0
    /\ dequeue
    /\ LET j == popleft_job(queues[first_band(queues)]) IN
         /\ dispatcher_job' = j
         /\ daemon_jobs' = IF daemon_jobs[j] # "absent"
                           THEN [daemon_jobs EXCEPT ![j] = "running"]
                           ELSE daemon_jobs
    /\ submit_result' = "none"
    /\ UNCHANGED <<rmVars, cancel_queued, resubmits, total_jobs>>

\* A process_jobs that leaves the status of the job it ran.
finished_status_unmarked(ok) == "running"

\* process_jobs, the status written after execute_job: 'completed' when it
\* returned, 'failed' in the except branch.
finished_status(ok) == IF ok THEN "completed" ELSE "failed"

\* process_jobs, after execute_job returned or raised: completed or failed.
process_jobs_finish(ok) ==
    /\ dispatcher_job # 0
    /\ daemon_jobs' = IF daemon_jobs[dispatcher_job] # "absent"
                      THEN [daemon_jobs EXCEPT ![dispatcher_job] = finished_status(ok)]
                      ELSE daemon_jobs
    /\ dispatcher_job' = 0
    /\ submit_result' = "none"
    /\ UNCHANGED <<queueVars, rmVars, cancel_queued, resubmits, total_jobs>>

\* cancel_job: for a job in active_jobs the first statement is
\* self.job_queue.remove(job_id); JobQueue has no remove (and AgentManager
\* no cancel_agent), so the call raises AttributeError before the queue or
\* the status is touched. For a job not in active_jobs it returns False.
daemon_cancel_job(j) ==
    /\ Cardinality(cancel_queued) < MaxCancels
    /\ cancel_queued' = IF daemon_jobs[j] = "queued"
                        THEN cancel_queued \cup {j}
                        ELSE cancel_queued
    /\ submit_result' = "none"
    /\ UNCHANGED <<queueVars, rmVars, daemon_jobs, dispatcher_job, resubmits,
                   total_jobs>>

\* Jobs accepted by submit_job and not yet finished.
unfinished_jobs == {j \in DaemonJobIds : daemon_jobs[j] \in {"queued", "running"}}

----------------------------------------------------------------------------
(* ChainedEngine: pattern_engines/chained/engine.py, driven by             *)
(* BasePatternEngine.execute: pattern_engines/base/base_engine.py          *)

\* input_source values: 'client_data', and any other value or none at all.
InputSources == {"client_data", "previous_step"}

\* spec.get('input_data'): a payload, or None when the spec has none.
InputData == {"client_input", "None"}

\* What a daemon returns for a step.
StepResults == {"out_a", "out_b"}

OnFailure == {"fail_fast", "rollback_and_retry"}

\* error_handling.max_retries values a spec may carry.
RetryLimits == {1, 2}

\* Pipelines of a given length: each step carries a step number (right, or
\* off by one) and an input_source.
PipelinesOfLen(n) ==
    [1..n -> {[step |-> k, input_source |-> src] :
                 k \in 1..(MaxSteps + 1), src \in InputSources}]

Pipelines ==
    {p \in UNION {PipelinesOfLen(n) : n \in 1..MaxSteps} :
        \A i \in 1..Len(p) : p[i].step \in {i, i + 1}}

NoFinal == [final_output |-> "None", total_steps |-> 0, steps_completed |-> <<>>]

ChainIdleBut(spec) ==
    /\ ch_spec = spec
    /\ ch_status = "new"
    /\ ch_step = 0
    /\ ch_previous = "None"
    /\ ch_results = <<>>
    /\ ch_sent = <<>>
    /\ ch_failures = 0
    /\ ch_final = NoFinal

ChainIdle ==
    ChainIdleBut([pipeline |-> <<>>, on_failure |-> "fail_fast",
                  max_retries |-> 1, input_data |-> "None"])

ChainInit ==
    \E p \in Pipelines, f \in OnFailure, r \in RetryLimits, d \in InputData :
        ChainIdleBut([pipeline |-> p, on_failure |-> f,
                      max_retries |-> r, input_data |-> d])

\* ChainedEngine.validate_spec: at least 2 steps, step i numbered i + 1
\* counting i from 0.
chained_validate_spec(spec) ==
    /\ Len(spec.pipeline) >= 2
    /\ \A i \in 1..Len(spec.pipeline) : spec.pipeline[i].step = i

\* A step input that drops previous_output.
step_input_unchained(spec, step, previous_output) ==
    IF step.input_source = "client_data" THEN spec.input_data ELSE "empty_dict"

\* execute_pattern, the input of a step: the client's input_data for
\* input_source 'client_data', else previous_output unless it is None,
\* else the empty dict.
step_input(spec, step, previous_output) ==
    IF step.input_source = "client_data" THEN spec.input_data
    ELSE IF previous_output # "None" THEN previous_output
    ELSE "empty_dict"

\* An except branch that goes round the loop again.
retry_step_resend(spec, failures) == TRUE

\* execute_pattern, the except branch: both the rollback_and_retry and the
\* fail-fast branch re-raise; TRUE when the step is to be sent again.
retry_step(spec, failures) == FALSE

\* ChainedEngine.aggregate_results
chained_aggregate_results(results) ==
    [final_output |-> IF results # <<>> THEN results[Len(results)].result ELSE "None",
     total_steps |-> Len(results),
     steps_completed |-> [i \in 1..Len(results) |-> results[i].step]]

\* execute: validate_spec, ValueError when invalid, else into execute_pattern.
chained_execute ==
    /\ ch_status = "new"
    /\ IF chained_validate_spec(ch_spec)
       THEN /\ ch_status' = "running"
            /\ ch_step' = 1
       ELSE /\ ch_status' = "raised"
            /\ UNCHANGED ch_step
    /\ UNCHANGED <<ch_spec, ch_previous, ch_results, ch_sent, ch_failures, ch_final>>

\* execute_pattern: the job spec of the current step goes to send_to_daemon.
chained_send ==
    /\ ch_status = "running"
    /\ LET step == ch_spec.pipeline[ch_step] IN
         ch_sent' = Append(ch_sent,
                       [step |-> step.step,
                        input_source |-> step.input_source,
                        input_data |-> step_input(ch_spec, step, ch_previous)])
    /\ ch_status' = "awaiting"
    /\ UNCHANGED <<ch_spec, ch_step, ch_previous, ch_results, ch_failures, ch_final>>

\* send_to_daemon returned: the result is recorded and becomes
\* previous_output; after the last step execute aggregates and saves.
chained_step_ok(result, save_ok) ==
    /\ ch_status = "awaiting"
    /\ LET step == ch_spec.pipeline[ch_step]
           results2 == Append(ch_results, [step |-> step.step, result |-> result])
       IN  /\ ch_results' = results2
           /\ ch_previous' = result
           /\ ch_failures' = 0
           /\ IF ch_step < Len(ch_spec.pipeline)
              THEN /\ ch_step' = ch_step + 1
                   /\ ch_status' = "running"
                   /\ UNCHANGED ch_final
              ELSE /\ UNCHANGED ch_step
                   /\ ch_status' = IF save_ok THEN "returned" ELSE "raised"
                   /\ ch_final' = IF save_ok THEN chained_aggregate_results(results2)
                                  ELSE ch_final
    /\ UNCHANGED <<ch_spec, ch_sent>>

\* send_to_daemon raised.
chained_step_error ==
    /\ ch_status = "awaiting"
    /\ ch_failures' = ch_failures + 1
    /\ ch_status' = IF retry_step(ch_spec, ch_failures + 1)
                    THEN "running" ELSE "raised"
    /\ UNCHANGED <<ch_spec, ch_step, ch_previous, ch_results, ch_sent, ch_final>>

----------------------------------------------------------------------------
(* CollaborativeEngine: pattern_engines/collaborative/engine.py            *)

NodeIdx == 1..MaxNodes

\* nodes: the length of config.nodes, -1 when the field is missing.
AggregationMethods ==
    {"federated_averaging", "weighted_average", "median", "custom"}

CollabSpecs ==
    [has_model_id : BOOLEAN, has_aggregation : BOOLEAN,
     method : AggregationMethods, nodes : -1..MaxNodes]

NoAggregate == [method |-> "None", node_count |-> -1, nodes_used |-> {}]

CollabIdleBut(spec) ==
    /\ co_spec = spec
    /\ co_status = "new"
    /\ co_results = [n \in NodeIdx |-> "none"]
    /\ co_final = NoAggregate

CollabIdle ==
    CollabIdleBut([has_model_id |-> FALSE, has_aggregation |-> FALSE,
                   method |-> "median", nodes |-> -1])

CollabInit == \E spec \in CollabSpecs : CollabIdleBut(spec)

\* CollaborativeEngine.validate_spec: the three fields, then two nodes.
collab_validate_spec(spec) ==
    /\ spec.has_model_id
    /\ spec.nodes # -1
    /\ spec.has_aggregation
    /\ spec.nodes >= 2

\* execute_pattern, the filter after gather: the nodes whose send_to_daemon
\* did not raise.
valid_results(results) == {n \in NodeIdx : results[n] = "ok"}

\* DIMIPFSClient.load_job_spec: always None.
load_job_spec(spec) == "None"

\* CollaborativeEngine.aggregate_results: the method of the loaded spec, of
\* the default config when nothing was loaded; node_count and nodes_used of
\* whatever list it is given.
collab_aggregate_results(spec, valid) ==
    [method |-> IF load_job_spec(spec) = "None" THEN "federated_averaging"
                ELSE spec.method,
     node_count |-> Cardinality(valid),
     nodes_used |-> valid]

\* execute: validate_spec, then execute_pattern up to asyncio.gather.
collab_execute ==
    /\ co_status = "new"
    /\ IF collab_validate_spec(co_spec)
       THEN /\ co_status' = "gathering"
            /\ co_results' = [n \in NodeIdx |->
                                 IF n <= co_spec.nodes THEN "pending" ELSE "none"]
       ELSE /\ co_status' = "raised"
            /\ UNCHANGED co_results
    /\ UNCHANGED <<co_spec, co_final>>

\* One send_to_daemon of the gather returns or raises.
collab_node_done(n, ok) ==
    /\ co_status = "gathering"
    /\ co_results[n] = "pending"
    /\ co_results' = [co_results EXCEPT ![n] = IF ok THEN "ok" ELSE "error"]
    /\ UNCHANGED <<co_spec, co_status, co_final>>

\* gather is complete: filter, aggregate_results, save_result, return.
collab_finish(save_ok) ==
    /\ co_status = "gathering"
    /\ \A n \in NodeIdx : co_results[n] # "pending"
    /\ co_status' = IF save_ok THEN "returned" ELSE "raised"
    /\ co_final' = IF save_ok
                   THEN collab_aggregate_results(co_spec, valid_results(co_results))
                   ELSE co_final
    /\ UNCHANGED <<co_spec, co_results>>

----------------------------------------------------------------------------
(* NodeRegistryManager (orchestrator/src/node_registry.py), NodeDiscovery   *)
(* (node_discovery.py) and NodeSelector (node_selector.py).  Time is        *)
(* counted in units of 30 seconds.                                          *)

\* registry.nodes, in list order.
NodeOrder == <<"n1", "n2", "n3">>

RegNodeIds == {NodeOrder[i] : i \in 1..Len(NodeOrder)}

\* cache_ttl = timedelta(seconds=30)
cache_ttl == 1

\* asyncio.sleep(60) of _cleanup_stale_nodes
sweep_interval == 2

\* heartbeat_timeout_seconds, default 120, of both node_registry and
\* node_discovery
heartbeat_timeout == 4

\* NodeInfo.reputation, a number in [0, 1]; here its two ends.
Reputations == {0, 1}

DataTypes == {"medical", "legal"}

Locations == {"eu", "us"}

NodeStatuses == {"active", "inactive"}

NoNode == [present |-> FALSE, status |-> "none", reputation |-> 0,
           data_types |-> {}, location |-> "none", last_heartbeat |-> -1]

\* The NodeInfo values a registry may hold at time now; last_heartbeat -1
\* is None.
NodeInfos(now) ==
    [present : {TRUE}, status : NodeStatuses, reputation : Reputations,
     data_types : {{d} : d \in DataTypes}, location : Locations,
     last_heartbeat : -1..now]

EmptyRegistry == [n \in RegNodeIds |-> NoNode]

NoActiveResult == [now |-> -1, nodes |-> {}]

\* count, reputation_min, data_type and location of a requirements dict;
\* "none" when the key is missing.
Requirements == [count : {1, 2, 3}, reputation_min : Reputations,
                 data_type : {"none", "medical"}, location : {"none", "eu"}]

NoRequirements == [count |-> 0, reputation_min |-> 0, data_type |-> "none",
                   location |-> "none"]

NoSelectResult == [status |-> "none", now |-> -1, requirements |-> NoRequirements,
                   registry |-> EmptyRegistry, node_ids |-> <<>>]

RegistryInit ==
    /\ reg_now = 0
    /\ registry_cache = EmptyRegistry
    /\ cache_loaded = FALSE
    /\ last_update = -1
    /\ registry_ipns = EmptyRegistry
    /\ ipns_published = FALSE
    /\ discovered_nodes = [n \in RegNodeIds |-> -1]
    /\ last_sweep = 0
    /\ active_result = NoActiveResult
    /\ select_result = NoSelectResult
    /\ marked_inactive = {}

\* A call's result is in the caller's hands until the next step.
results_dropped ==
    /\ active_result' = NoActiveResult
    /\ select_result' = NoSelectResult

\* get_registry: the cached registry while it is younger than cache_ttl,
\* else the published one (which becomes the cache), else an empty registry
\* that is not cached.  from_cache says the returned object is local_cache.
get_registry(load_ok) ==
    IF cache_loaded /\ reg_now - last_update < cache_ttl
    THEN [nodes |-> registry_cache, from_cache |-> TRUE, reloaded |-> FALSE]
    ELSE IF load_ok /\ ipns_published
         THEN [nodes |-> registry_ipns, from_cache |-> TRUE, reloaded |-> TRUE]
         ELSE [nodes |-> EmptyRegistry, from_cache |-> FALSE, reloaded |-> FALSE]

\* What a call that mutates the object get_registry returned (and does
\* not assign local_cache itself) leaves in the manager.
cache_after(r, nodes) ==
    /\ registry_cache' = IF r.from_cache THEN nodes ELSE registry_cache
    /\ cache_loaded' = (cache_loaded \/ r.reloaded)
    /\ last_update' = IF r.reloaded THEN reg_now ELSE last_update

\* register_node: add or replace the node, publish; the cache is assigned
\* only when the publish returned a name.
register_node(n, info, load_ok, publish_ok) ==
    LET r == get_registry(load_ok)
        nodes == [r.nodes EXCEPT ![n] = info]
    IN  /\ IF publish_ok
           THEN /\ registry_ipns' = nodes
                /\ ipns_published' = TRUE
                /\ registry_cache' = nodes
                /\ cache_loaded' = TRUE
                /\ last_update' = reg_now
           ELSE /\ cache_after(r, nodes)
                /\ UNCHANGED <<registry_ipns, ipns_published>>
        /\ results_dropped
        /\ marked_inactive' = marked_inactive \ {n}
        /\ UNCHANGED <<reg_now, discovered_nodes, last_sweep>>

\* update_node_heartbeat: last_heartbeat = now and the status of the
\* heartbeat, publish, assign the cache; nothing when the node is not found.
update_node_heartbeat(n, status, load_ok, publish_ok) ==
    LET r == get_registry(load_ok) IN
    IF ~r.nodes[n].present
    THEN /\ cache_after(r, r.nodes)
         /\ UNCHANGED <<registry_ipns, ipns_published>>
    ELSE LET nodes == [r.nodes EXCEPT ![n].last_heartbeat = reg_now,
                                      ![n].status = IF status = "none" THEN @
                                                    ELSE status]
         IN  /\ registry_ipns' = IF publish_ok THEN nodes ELSE registry_ipns
             /\ ipns_published' = (ipns_published \/ publish_ok)
             /\ registry_cache' = nodes
             /\ cache_loaded' = TRUE
             /\ last_update' = reg_now

\* _handle_heartbeat: note the node as seen now, then update the registry.
handle_heartbeat(n, status, load_ok, publish_ok) ==
    /\ discovered_nodes' = [discovered_nodes EXCEPT ![n] = reg_now]
    /\ update_node_heartbeat(n, status, load_ok, publish_ok)
    /\ results_dropped
    /\ marked_inactive' = marked_inactive \ {n}
    /\ UNCHANGED <<reg_now, last_sweep>>

\* _cleanup_stale_nodes, one pass after the sleep: the nodes not seen for
\* more than heartbeat_timeout leave discovered_nodes and are marked
\* inactive in the registry get_registry returns; nothing is published.
cleanup_stale_nodes(load_ok) ==
    /\ reg_now >= last_sweep + sweep_interval
    /\ last_sweep' = reg_now
    /\ LET stale_nodes == {n \in RegNodeIds :
                             /\ discovered_nodes[n] # -1
                             /\ reg_now - discovered_nodes[n] > heartbeat_timeout}
           r == get_registry(load_ok)
           nodes == [n \in RegNodeIds |->
                        IF n \in stale_nodes /\ r.nodes[n].status = "active"
                        THEN [r.nodes[n] EXCEPT !.status = "inactive"]
                        ELSE r.nodes[n]]
       IN  /\ discovered_nodes' = [n \in RegNodeIds |->
                                     IF n \in stale_nodes THEN -1
                                     ELSE discovered_nodes[n]]
           /\ cache_after(r, nodes)
           /\ marked_inactive' = marked_inactive \cup
                  {n \in stale_nodes : r.nodes[n].status = "active"}
    /\ results_dropped
    /\ UNCHANGED <<reg_now, registry_ipns, ipns_published>>

\* A filter that trusts the status field.
is_active_by_status(node, now) == node.status = "active"

\* get_active_nodes, the test on one node: a recent heartbeat, or no
\* heartbeat at all and status active.
is_active_node(node, now) ==
    IF node.last_heartbeat # -1
    THEN now - node.last_heartbeat < heartbeat_timeout
    ELSE node.status = "active"

\* get_active_nodes
get_active_nodes(load_ok) ==
    LET r == get_registry(load_ok) IN
    /\ active_result' =
         [now |-> reg_now,
          nodes |-> {[node_id |-> n, last_heartbeat |-> r.nodes[n].last_heartbeat] :
                       n \in {m \in RegNodeIds : /\ r.nodes[m].present
                                                 /\ is_active_node(r.nodes[m], reg_now)}}]
    /\ cache_after(r, r.nodes)
    /\ select_result' = NoSelectResult
    /\ UNCHANGED <<reg_now, registry_ipns, ipns_published, discovered_nodes,
                   last_sweep, marked_inactive>>

\* Time passes.
tick ==
    /\ reg_now < MaxTime
    /\ reg_now' = reg_now + 1
    /\ results_dropped
    /\ UNCHANGED <<registry_cache, cache_loaded, last_update, registry_ipns,
                   ipns_published, discovered_nodes, last_sweep, marked_inactive>>

\* meets_requirements: reputation, status, data type, location.
meets_requirements(node, requirements) ==
    /\ ~(node.reputation < requirements.reputation_min)
    /\ node.status = "active"
    /\ requirements.data_type # "none"
         => requirements.data_type \in node.data_types
    /\ requirements.location # "none"
         => node.location = requirements.location

\* The position of a node in registry.nodes.
node_index(n) == CHOOSE i \in 1..Len(NodeOrder) : NodeOrder[i] = n

\* eligible_nodes.sort(key=reputation, reverse=True): a stable sort.
RECURSIVE sort_by_reputation(_, _)
sort_by_reputation(nodes, ids) ==
    IF ids = {} THEN <<>>
    ELSE LET n == CHOOSE x \in ids : \A y \in ids :
                     \/ nodes[x].reputation > nodes[y].reputation
                     \/ /\ nodes[x].reputation = nodes[y].reputation
                        /\ node_index(x) <= node_index(y)
         IN  <<n>> \o sort_by_reputation(nodes, ids \ {n})

SeqRange(seq) == {seq[i] : i \in 1..Len(seq)}

\* weighted_random_selection: remove duplicates while preserving order.
RECURSIVE unique_in_order(_, _)
unique_in_order(selected, seen) ==
    IF selected = <<>> THEN <<>>
    ELSE IF Head(selected) \in seen
         THEN unique_in_order(Tail(selected), seen)
         ELSE <<Head(selected)>>
              \o unique_in_order(Tail(selected), seen \cup {Head(selected)})

\* weighted_random_selection: while fewer than count, add the first node
\* of the list that is not selected yet.
RECURSIVE fill_from_top(_, _, _)
fill_from_top(unique_selected, sorted, count) ==
    IF Len(unique_selected) < count /\ Len(unique_selected) < Len(sorted)
    THEN LET i == CHOOSE k \in 1..Len(sorted) :
                     /\ sorted[k] \notin SeqRange(unique_selected)
                     /\ \A l \in 1..(k - 1) : sorted[l] \in SeqRange(unique_selected)
         IN  fill_from_top(Append(unique_selected, sorted[i]), sorted, count)
    ELSE unique_selected

RECURSIVE SumReputation(_, _)
SumReputation(nodes, ids) ==
    IF ids = {} THEN 0
    ELSE LET n == CHOOSE x \in ids : TRUE
         IN  nodes[n].reputation + SumReputation(nodes, ids \ {n})

\* random.choices(nodes, weights, k=count) can return any k draws of nodes
\* of positive weight; it raises ValueError when the weights total zero.
choices_raise(nodes, sorted) == SumReputation(nodes, SeqRange(sorted)) <= 0

choices_draws(nodes, sorted, count) ==
    [1..count -> {n \in SeqRange(sorted) : nodes[n].reputation > 0}]

\* weighted_random_selection on the sorted eligible nodes, given the draws.
weighted_random_selection(sorted, count, selected) ==
    IF Len(sorted) <= count THEN sorted
    ELSE LET unique_selected ==
                 fill_from_top(unique_in_order(selected, {}), sorted, count)
         IN  SubSeq(unique_selected, 1,
                    IF count < Len(unique_selected) THEN count
                    ELSE Len(unique_selected))

\* select_nodes: load the registry, filter, sort, select; returns node ids.
select_nodes(requirements, load_ok, selected) ==
    LET r == get_registry(load_ok)
        eligible == {n \in RegNodeIds : /\ r.nodes[n].present
                                        /\ meets_requirements(r.nodes[n], requirements)}
        sorted == sort_by_reputation(r.nodes, eligible)
        draws == Len(sorted) > requirements.count
        raises == draws /\ choices_raise(r.nodes, sorted)
    IN  /\ IF draws /\ ~raises
           THEN selected \in choices_draws(r.nodes, sorted, requirements.count)
           ELSE selected = <<>>
        /\ select_result' =
             [status |-> IF raises THEN "raised" ELSE "returned",
              now |-> reg_now,
              requirements |-> requirements,
              registry |-> r.nodes,
              node_ids |-> IF raises \/ eligible = {} THEN <<>>
                           ELSE weighted_random_selection(
                                    sorted, requirements.count, selected)]
        /\ cache_after(r, r.nodes)
        /\ active_result' = NoActiveResult
        /\ UNCHANGED <<reg_now, registry_ipns, ipns_published, discovered_nodes,
                       last_sweep, marked_inactive>>

----------------------------------------------------------------------------
(* RateLimiter: orchestrator/src/rate_limiter.py, with rate limiting       *)
(* enabled.  Time is counted in ticks of 1/TicksPerSecond seconds and      *)
(* tokens in units of 1/TokenScale token, which keeps the refill exact.     *)

\* default_rate_per_minute
default_rate == 60

TokenScale == 60 * TicksPerSecond

Identifiers == {"regular", "premium"}

\* user_limits: one identifier with a higher rate and a larger burst.
user_limits ==
    [premium |-> [rate_per_minute |-> 2 * default_rate,
                  burst_size |-> burst_size + 1]]

\* self.user_limits.get(identifier, {}).get('rate_per_minute', self.default_rate)
rate_of(identifier) ==
    IF identifier \in DOMAIN user_limits
    THEN user_limits[identifier].rate_per_minute ELSE default_rate

\* self.user_limits.get(identifier, {}).get('burst_size', self.burst_size)
burst_of(identifier) ==
    IF identifier \in DOMAIN user_limits
    THEN user_limits[identifier].burst_size ELSE burst_size

RateTimes == 0..MaxRateTime

NoBucket == [exists |-> FALSE, tokens |-> 0, last_refill |-> 0]

NoCheck == [identifier |-> "none", cost |-> 0, allowed |-> TRUE,
            retry_after |-> 0, tokens |-> 0, at |-> 0]

RateInit ==
    /\ rl_now = 0
    /\ buckets = [i \in Identifiers |-> NoBucket]
    /\ accepted_at = [i \in Identifiers |-> [t \in RateTimes |-> 0]]
    /\ last_check = NoCheck

\* The defaultdict factory: a new bucket holds the default burst_size.
new_bucket(now) ==
    [exists |-> TRUE, tokens |-> burst_size * TokenScale, last_refill |-> now]

\* A refill that forgets the cap.
refill_uncapped(tokens, rate, burst, elapsed) == tokens + rate * elapsed

\* min(burst, tokens + (rate / 60.0) * elapsed)
refill(tokens, rate, burst, elapsed) ==
    IF tokens + rate * elapsed < burst * TokenScale
    THEN tokens + rate * elapsed ELSE burst * TokenScale

\* int((cost - tokens) / (rate / 60.0)), in seconds
retry_after_of(tokens, rate, cost) ==
    (cost * TokenScale - tokens) \div (rate * TicksPerSecond)

\* check_rate_limit(identifier, cost)
check_rate_limit(identifier, cost) ==
    LET rate == rate_of(identifier)
        burst == burst_of(identifier)
        bucket == IF buckets[identifier].exists THEN buckets[identifier]
                  ELSE new_bucket(rl_now)
        tokens == refill(bucket.tokens, rate, burst, rl_now - bucket.last_refill)
        allowed == tokens >= cost * TokenScale
        left == IF allowed THEN tokens - cost * TokenScale ELSE tokens
    IN  /\ buckets' = [buckets EXCEPT ![identifier] =
                          [exists |-> TRUE, tokens |-> left, last_refill |-> rl_now]]
        /\ accepted_at' = IF allowed /\ cost = 1
                          THEN [accepted_at EXCEPT ![identifier][rl_now] = @ + 1]
                          ELSE accepted_at
        /\ last_check' = [identifier |-> identifier, cost |-> cost,
                          allowed |-> allowed,
                          retry_after |-> IF allowed THEN 0
                                          ELSE retry_after_of(tokens, rate, cost),
                          tokens |-> left, at |-> rl_now]
        /\ UNCHANGED rl_now

\* reset_bucket(identifier): the bucket is deleted; the next check makes a
\* new one, so the count of accepted requests starts again with it.
reset_bucket(identifier) ==
    /\ buckets[identifier].exists
    /\ buckets' = [buckets EXCEPT ![identifier] = NoBucket]
    /\ accepted_at' = [accepted_at EXCEPT ![identifier] = [t \in RateTimes |-> 0]]
    /\ last_check' = NoCheck
    /\ UNCHANGED rl_now

\* Time passes.
rate_tick ==
    /\ rl_now < MaxRateTime
    /\ rl_now' = rl_now + 1
    /\ UNCHANGED <<buckets, accepted_at, last_check>>

----------------------------------------------------------------------------
(* AgentManager: daemon/src/agent_manager.py *)

\* agent_process.join(timeout=5) after terminate().
term_join_timeout == 5

\* agent_process.join(timeout=2) after kill().
kill_join_timeout == 2

\* agent_process.join(timeout=2) in the finally block.
final_join_timeout == 2

AgentTimeouts == 1..MaxAgentTimeout

AgentInit ==
    /\ agent_pc = "idle"
    /\ agent_timeout = 0
    /\ agent_clock = 0
    /\ agent_elapsed = 0
    /\ result_queue = "empty"
    /\ agent_result = "none"
    /\ child = "none"
    /\ child_signals = {}
    /\ active_agents = FALSE
    /\ agent_outcome = "none"
    /\ agent_returned_at = -1

\* How long a join waits for the child: until it dies, at most the
\* timeout. dies_after is the time the child takes to die, -1 if it does
\* not die while the parent waits.
join_wait(dies_after, timeout) ==
    IF dies_after >= 0 /\ dies_after <= timeout THEN dies_after ELSE timeout

\* join and is_alive wait for a dead child, so a child found dead is reaped.
child_after_join(dies_after, timeout) ==
    IF dies_after >= 0 /\ dies_after <= timeout THEN "reaped" ELSE "alive"

\* run_inference up to the polling loop: the child is spawned and
\* recorded in active_agents.
run_inference_start(timeout) ==
    /\ agent_pc = "idle"
    /\ agent_pc' = "poll"
    /\ agent_timeout' = timeout
    /\ child' = "alive"
    /\ active_agents' = TRUE
    /\ UNCHANGED <<agent_clock, agent_elapsed, result_queue, agent_result,
                   child_signals, agent_outcome, agent_returned_at>>

\* One turn of the polling loop. The loop ends when elapsed reached the
\* timeout, when the queue has an item, or when the child is dead (with
\* an empty queue: RuntimeError); else it sleeps 0.1 s, during which the
\* clock passes a whole second or not, and measures elapsed again.
poll_iteration(slept) ==
    /\ agent_pc = "poll"
    /\ IF agent_elapsed >= agent_timeout
       THEN /\ agent_pc' = "timeout"
            /\ UNCHANGED <<agent_clock, agent_elapsed, result_queue, agent_result,
                           child, agent_outcome>>
       ELSE IF result_queue # "empty"
       THEN /\ agent_result' = result_queue
            /\ result_queue' = "empty"
            /\ agent_pc' = "finally"
            /\ agent_outcome' = IF result_queue = "error" THEN "RuntimeError"
                                ELSE "result"
            /\ UNCHANGED <<agent_clock, agent_elapsed, child>>
       ELSE IF child # "alive"
       THEN /\ child' = "reaped"
            /\ agent_pc' = "finally"
            /\ agent_outcome' = "RuntimeError"
            /\ UNCHANGED <<agent_clock, agent_elapsed, result_queue, agent_result>>
       ELSE /\ agent_clock' = agent_clock + slept
            /\ agent_elapsed' = agent_clock + slept
            /\ UNCHANGED <<agent_pc, result_queue, agent_result, child,
                           agent_outcome>>
    /\ UNCHANGED <<agent_timeout, child_signals, active_agents, agent_returned_at>>

\* The timeout branch, first half: terminate() and join(timeout=5). A
\* child that already exited is reaped at once; one that handles or
\* ignores SIGTERM dies after dies_after seconds or not at all.
timeout_terminate(dies_after) ==
    /\ agent_pc = "timeout"
    /\ agent_pc' = "after_term"
    /\ child_signals' = child_signals \cup {"SIGTERM"}
    /\ IF child = "alive"
       THEN /\ child' = child_after_join(dies_after, term_join_timeout)
            /\ agent_clock' = agent_clock + join_wait(dies_after, term_join_timeout)
       ELSE /\ child' = "reaped"
            /\ UNCHANGED agent_clock
    /\ UNCHANGED <<agent_timeout, agent_elapsed, result_queue, agent_result,
                   active_agents, agent_outcome, agent_returned_at>>

\* The timeout branch, second half: if the child is still alive, kill()
\* and join(timeout=2); then TimeoutError is raised.
timeout_kill(dies_after) ==
    /\ agent_pc = "after_term"
    /\ agent_pc' = "finally"
    /\ agent_outcome' = "TimeoutError"
    /\ IF child = "alive"
       THEN /\ child_signals' = child_signals \cup {"SIGKILL"}
            /\ child' = child_after_join(dies_after, kill_join_timeout)
            /\ agent_clock' = agent_clock + join_wait(dies_after, kill_join_timeout)
       ELSE UNCHANGED <<child_signals, child, agent_clock>>
    /\ UNCHANGED <<agent_timeout, agent_elapsed, result_queue, agent_result,
                   active_agents, agent_returned_at>>

\* The finally block's last statements: is_alive() reaps a dead child; a
\* live one gets terminate() and join(timeout=2), nothing more.
finally_child(state, dies_after) ==
    IF state = "alive" THEN child_after_join(dies_after, final_join_timeout)
    ELSE "reaped"

\* The finally block: job_id leaves active_agents, the child is dealt
\* with, and run_inference returns or raises.
run_inference_finally(dies_after) ==
    /\ agent_pc = "finally"
    /\ agent_pc' = "returned"
    /\ active_agents' = FALSE
    /\ child' = finally_child(child, dies_after)
    /\ child_signals' = IF child = "alive" THEN child_signals \cup {"SIGTERM"}
                        ELSE child_signals
    /\ agent_clock' = IF child = "alive"
                      THEN agent_clock + join_wait(dies_after, final_join_timeout)
                      ELSE agent_clock
    /\ agent_returned_at' = agent_clock'
    /\ UNCHANGED <<agent_timeout, agent_elapsed, result_queue, agent_result,
                   agent_outcome>>

\* _agent_worker puts the inference result, or the error it caught, in
\* the queue.
agent_worker_put(item) ==
    /\ agent_pc = "poll"
    /\ child = "alive"
    /\ result_queue = "empty"
    /\ agent_result = "none"
    /\ result_queue' = item
    /\ UNCHANGED <<agent_pc, agent_timeout, agent_clock, agent_elapsed,
                   agent_result, child, child_signals, active_agents,
                   agent_outcome, agent_returned_at>>

\* The child exits or is killed from outside, with or without a result.
agent_worker_exit ==
    /\ agent_pc = "poll"
    /\ child = "alive"
    /\ child' = "zombie"
    /\ UNCHANGED <<agent_pc, agent_timeout, agent_clock, agent_elapsed,
                   result_queue, agent_result, child_signals, active_agents,
                   agent_outcome, agent_returned_at>>

----------------------------------------------------------------------------
(* OrchestratorCoordinator: orchestrator/src/orchestrator_coordinator.py *)

\* self.orchestrator_id
SelfId == "o1"

PeerIds == {"o2", "o3"}

\* if self.local_job_count < 50
job_threshold == 50

\* await asyncio.sleep(2)
selection_wait == 2

NoSelected == [result |-> "pending", count |-> -1, ages |-> [p \in PeerIds |-> -1]]

CoordInit ==
    /\ coord_now = 0
    /\ known_order = <<>>
    /\ known_seen = [p \in PeerIds |-> -1]
    /\ select_pc = "idle"
    /\ select_active = <<>>
    /\ select_started = 0
    /\ coord_selected = NoSelected
    /\ peer_received = {}

\* _handle_orchestrator_heartbeat: own and anonymous heartbeats are
\* ignored, any other sender is entered with datetime.now().
handle_orchestrator_heartbeat(sender) ==
    /\ IF sender = SelfId \/ sender = "none"
       THEN UNCHANGED <<known_order, known_seen>>
       ELSE /\ known_seen' = [known_seen EXCEPT ![sender] = coord_now]
            /\ known_order' = IF known_seen[sender] = -1
                              THEN Append(known_order, sender)
                              ELSE known_order
    /\ UNCHANGED <<coord_now, select_pc, select_active, select_started,
                   coord_selected, peer_received>>

\* get_active_orchestrators: the known peers seen less than
\* heartbeat_timeout ago, in dict order, then self.
RECURSIVE active_peers(_, _, _)
active_peers(order, seen, now) ==
    IF order = <<>> THEN <<>>
    ELSE IF now - seen[Head(order)] < orchestrator_heartbeat_timeout
         THEN <<Head(order)>> \o active_peers(Tail(order), seen, now)
         ELSE active_peers(Tail(order), seen, now)

get_active_orchestrators(order, seen, now) ==
    Append(active_peers(order, seen, now), SelfId)

\* [o for o in active_orchestrators if o != self.orchestrator_id]
RECURSIVE other_orchestrators(_)
other_orchestrators(active) ==
    IF active = <<>> THEN <<>>
    ELSE IF Head(active) # SelfId
         THEN <<Head(active)>> \o other_orchestrators(Tail(active))
         ELSE other_orchestrators(Tail(active))

\* The age of each known peer's last heartbeat, -1 for an unknown peer.
heartbeat_ages(seen, now) ==
    [p \in PeerIds |-> IF seen[p] = -1 THEN -1 ELSE now - seen[p]]

\* The selection after the wait: None below the threshold, else the other
\* orchestrator at index local_job_count % len(other_orchestrators).
select_after_wait(active, count) ==
    LET others == other_orchestrators(active) IN
    IF count < job_threshold THEN "None"
    ELSE IF others # <<>> THEN others[(count % Len(others)) + 1]
    ELSE "None"

\* select_orchestrator_for_job up to the sleep: the active orchestrators
\* are listed; alone, it returns None; else it publishes the request and
\* waits.
select_orchestrator_begin ==
    /\ select_pc = "idle"
    /\ LET active == get_active_orchestrators(known_order, known_seen, coord_now) IN
         IF Len(active) <= 1
         THEN /\ coord_selected' = [result |-> "None", count |-> local_job_count,
                                    ages |-> heartbeat_ages(known_seen, coord_now)]
              /\ UNCHANGED <<select_pc, select_active, select_started>>
         ELSE /\ select_pc' = "waiting"
              /\ select_active' = active
              /\ select_started' = coord_now
              /\ coord_selected' = NoSelected
    /\ UNCHANGED <<coord_now, known_order, known_seen, peer_received>>

\* select_orchestrator_for_job after the sleep: the list made before the
\* sleep and the job count of now decide.
select_orchestrator_end ==
    /\ select_pc = "waiting"
    /\ coord_now >= select_started + selection_wait
    /\ select_pc' = "idle"
    /\ coord_selected' = [result |-> select_after_wait(select_active, local_job_count),
                          count |-> local_job_count,
                          ages |-> heartbeat_ages(known_seen, coord_now)]
    /\ select_active' = <<>>
    /\ UNCHANGED <<coord_now, known_order, known_seen, select_started, peer_received>>

\* Time passes; a sleeping select_orchestrator_for_job wakes when its two
\* seconds are over.
coord_tick ==
    /\ coord_now < MaxCoordTime
    /\ select_pc = "waiting" => coord_now < select_started + selection_wait
    /\ coord_now' = coord_now + 1
    /\ UNCHANGED <<known_order, known_seen, select_pc, select_active,
                   select_started, coord_selected, peer_received>>

\* _handle_coordination_message on the peer an assignment was published
\* for: a message of its own is ignored; a job_assignment is logged, and
\* nothing is created, stored or started for the job.
handle_coordination_message(message_type, sender, j) ==
    /\ message_type = "job_assignment"
    /\ j \in assigned
    /\ peer_received' = IF sender = SelfId THEN peer_received \cup {j}
                        ELSE peer_received
    /\ UNCHANGED <<coord_now, known_order, known_seen, select_pc, select_active,
                   select_started, coord_selected>>

\* update_job_count(count)
update_job_count(count) ==
    /\ local_job_count' = count
    /\ UNCHANGED <<active_jobs, exec_task, job_updates, assigned, saved_specs,
                   submits, last_submit, publish_calls, job_results>>

----------------------------------------------------------------------------
(* ConnectionPool: orchestrator/src/connection_pool.py.  A channel is a     *)
(* number, in order of creation; 0 stands for no channel.                   *)

Endpoints == {"e1", "e2"}

Channels == 1..MaxChannels

NoMetadata == [present |-> FALSE, available |-> FALSE, last_used |-> -1,
               endpoint |-> "none"]

NoGet == [kind |-> "none", channel |-> 0, endpoint |-> "none",
          reusable |-> FALSE, pooled |-> FALSE]

\* ConnectionPool.__init__
PoolInit ==
    /\ pool_now = 0
    /\ pools = [e \in Endpoints |-> <<>>]
    /\ channel_metadata = [c \in Channels |-> NoMetadata]
    /\ channel_healthy = [c \in Channels |-> TRUE]
    /\ channels_created = 0
    /\ last_get = NoGet
    /\ held = [c \in Channels |-> 0]

\* _is_channel_healthy
is_channel_healthy(channel) == channel_healthy[channel]

\* list.remove(channel) on the element at position i
remove_at(pool, i) == [k \in 1..(Len(pool) - 1) |-> IF k < i THEN pool[k] ELSE pool[k + 1]]

\* get_channel, the loop over self.pools[endpoint] from position i on: the
\* first available healthy channel ends it; an available unhealthy one is
\* removed from the list being iterated, and the iteration goes on at the
\* next position of the shortened list.
RECURSIVE scan_pool(_, _)
scan_pool(pool, i) ==
    IF i > Len(pool)
    THEN [channel |-> 0, pool |-> pool]
    ELSE LET channel == pool[i] IN
         IF channel_metadata[channel].present /\ channel_metadata[channel].available
         THEN IF is_channel_healthy(channel)
              THEN [channel |-> channel, pool |-> pool]
              ELSE scan_pool(remove_at(pool, i), i + 1)
         ELSE scan_pool(pool, i + 1)

in_pool(pool, channel) == \E k \in 1..Len(pool) : pool[k] = channel

\* _remove_channel for every channel of `before` that is not in `after`
remove_channel(metadata, before, after) ==
    [c \in Channels |->
        IF in_pool(before, c) /\ ~in_pool(after, c) THEN NoMetadata ELSE metadata[c]]

\* A get_channel that hands out a channel and leaves it available.
check_out_shared(metadata) == [metadata EXCEPT !.last_used = pool_now]

\* get_channel, on the channel it reuses: available = False, last_used = now.
check_out(metadata) == [metadata EXCEPT !.available = FALSE, !.last_used = pool_now]

\* get_channel(endpoint)
get_channel(endpoint) ==
    LET scan == scan_pool(pools[endpoint], 1)
        metadata == remove_channel(channel_metadata, pools[endpoint], scan.pool)
        reusable == \E k \in 1..Len(pools[endpoint]) :
                        LET c == pools[endpoint][k] IN
                        /\ channel_metadata[c].present
                        /\ channel_metadata[c].available
                        /\ is_channel_healthy(c)
        new == channels_created + 1
    IN
    IF scan.channel # 0
    THEN /\ pools' = [pools EXCEPT ![endpoint] = scan.pool]
         /\ channel_metadata' = [metadata EXCEPT ![scan.channel] = check_out(@)]
         /\ held' = [held EXCEPT ![scan.channel] = @ + 1]
         /\ last_get' = [kind |-> "reused", channel |-> scan.channel,
                         endpoint |-> endpoint, reusable |-> reusable,
                         pooled |-> TRUE]
         /\ UNCHANGED <<pool_now, channel_healthy, channels_created>>
    ELSE /\ channels_created < MaxChannels
         /\ channels_created' = new
         /\ IF Len(scan.pool) < max_connections
            THEN /\ pools' = [pools EXCEPT ![endpoint] = Append(scan.pool, new)]
                 /\ channel_metadata' =
                        [metadata EXCEPT ![new] = [present |-> TRUE, available |-> FALSE,
                                                   last_used |-> pool_now,
                                                   endpoint |-> endpoint]]
                 /\ last_get' = [kind |-> "created", channel |-> new,
                                 endpoint |-> endpoint, reusable |-> reusable,
                                 pooled |-> TRUE]
                 /\ held' = [held EXCEPT ![new] = @ + 1]
            ELSE /\ pools' = [pools EXCEPT ![endpoint] = scan.pool]
                 /\ channel_metadata' = metadata
                 /\ last_get' = [kind |-> "temporary", channel |-> new,
                                 endpoint |-> endpoint, reusable |-> reusable,
                                 pooled |-> FALSE]
                 /\ UNCHANGED held
         /\ UNCHANGED <<pool_now, channel_healthy>>

\* return_channel(channel)
return_channel(channel) ==
    /\ channel <= channels_created
    /\ IF channel_metadata[channel].present
       THEN channel_metadata' = [channel_metadata EXCEPT ![channel].available = TRUE,
                                                        ![channel].last_used = pool_now]
       ELSE UNCHANGED channel_metadata
    /\ held' = [held EXCEPT ![channel] = IF @ > 0 THEN @ - 1 ELSE @]
    /\ UNCHANGED <<pool_now, pools, channel_healthy, channels_created, last_get>>

\* cleanup_idle_connections, one pass of the loop
cleanup_idle_connections ==
    LET to_remove == {c \in Channels :
                         /\ channel_metadata[c].present
                         /\ channel_metadata[c].available
                         /\ pool_now - channel_metadata[c].last_used > idle_timeout}
    IN
    /\ pools' = [e \in Endpoints |-> SelectSeq(pools[e], LAMBDA c : c \notin to_remove)]
    /\ channel_metadata' = [c \in Channels |->
                               IF c \in to_remove THEN NoMetadata
                               ELSE channel_metadata[c]]
    /\ UNCHANGED <<pool_now, channel_healthy, channels_created, last_get, held>>

\* The connectivity state of a pooled channel leaves READY and IDLE.
channel_breaks(channel) ==
    /\ channel_metadata[channel].present
    /\ channel_healthy[channel]
    /\ channel_healthy' = [channel_healthy EXCEPT ![channel] = FALSE]
    /\ UNCHANGED <<pool_now, pools, channel_metadata, channels_created, last_get,
                   held>>

\* datetime.now() advances.
pool_tick ==
    /\ pool_now < MaxPoolTime
    /\ pool_now' = pool_now + 1
    /\ UNCHANGED <<pools, channel_metadata, channel_healthy, channels_created,
                   last_get, held>>

----------------------------------------------------------------------------
(* DIMDaemon.execute_job: daemon/src/daemon.py, with the callees it names  *)
(* in data_cabinet.py and agent_manager.py.                                *)

\* job_spec.get('data_source'): no such key, an empty string, a cabinet id.
DataSources == {"None", "", "cabinet_a"}

\* job_spec.get('input_data'): no such key, an empty dict, a payload.
JobInputs == {"None", "empty", "payload"}

ExecSpecs == [model_id : {"m1", "m2"}, data_source : DataSources,
              input_data : JobInputs]

\* Python truth of a job_spec value.
truthy(value) == value \notin {"None", "", "empty"}

NoOutcome == [error |-> "none", source_addressed |-> FALSE, agent_input |-> "none"]

ExecInit ==
    /\ ex_pc = "idle"
    /\ ex_spec = [model_id |-> "m1", data_source |-> "None", input_data |-> "None"]
    /\ ex_outcome = NoOutcome
    /\ ex_count = 0

\* The methods of DataCabinetManager.
DataCabinetManagerMethods == {"__init__", "get_cabinet"}

\* The parameters of AgentManager.run_inference after self, and those
\* without a default.
RunInferenceParameters == {"job_id", "model_path", "data_cabinet", "input_data", "timeout"}

RunInferenceRequired == {"job_id", "model_path", "data_cabinet", "input_data"}

\* The keywords execute_job passes to run_inference.
RunInferenceKeywords == {"job_id", "model_path", "data", "timeout"}

\* A call by keywords binds when every keyword is a parameter and every
\* parameter without a default is given; otherwise it raises TypeError.
call_binds(keywords, parameters, required) ==
    /\ keywords \subseteq parameters
    /\ required \subseteq keywords

\* execute_job up to await self.model_cache.get_model(model_id)
execute_job_begin(job_spec) ==
    /\ ex_pc \in {"idle", "done"}
    /\ ex_count < MaxExecutions
    /\ ex_pc' = "get_model"
    /\ ex_spec' = job_spec
    /\ ex_outcome' = NoOutcome
    /\ ex_count' = ex_count + 1

\* execute_job once get_model has returned or raised: the data branch, then
\* the call of run_inference.
execute_job_data(model_ok) ==
    LET data_source == ex_spec.data_source
        input_data == ex_spec.input_data
        inference(data, addressed) ==
            IF call_binds(RunInferenceKeywords, RunInferenceParameters,
                          RunInferenceRequired)
            THEN [error |-> "none", source_addressed |-> addressed,
                  agent_input |-> data]
            ELSE [error |-> "TypeError", source_addressed |-> addressed,
                  agent_input |-> "none"]
    IN
    /\ ex_pc = "get_model"
    /\ ex_pc' = "done"
    /\ ex_outcome' =
          IF ~model_ok
          THEN [NoOutcome EXCEPT !.error = "model_error"]
          ELSE IF truthy(data_source)
          THEN IF "get_data" \in DataCabinetManagerMethods
               THEN inference(data_source, TRUE)
               ELSE [error |-> "AttributeError", source_addressed |-> TRUE,
                     agent_input |-> "none"]
          ELSE IF truthy(input_data)
          THEN inference(input_data, FALSE)
          ELSE [NoOutcome EXCEPT !.error = "ValueError"]
    /\ UNCHANGED <<ex_spec, ex_count>>

----------------------------------------------------------------------------
(* At-least-once delivery: the subscriptions hand a message of the topics  *)
(* to _handle_job_update (orchestrator.py) or _handle_heartbeat            *)
(* (node_discovery.py) again.                                              *)

\* event_type values on dim.jobs.updates; the handler knows the first two.
EventTypes == {"completed", "failed", "progress"}

\* The shapes of a message's data.
EventDatas == {"result", "error", "wrapped"}

\* The messages of the topic: the orchestrators' own (the result itself
\* with completed, the error with failed) and those of a publisher that
\* wraps the result or reports progress.
JobEvents ==
    {m \in JobIds \X EventTypes \X EventDatas :
        \/ m[2] = "completed" /\ m[3] \in {"result", "wrapped"}
        \/ m[2] = "failed" /\ m[3] = "error"
        \/ m[2] = "progress" /\ m[3] = "wrapped"}

NoIngest == [kind |-> "none", key |-> <<>>, repeats |-> 0]

\* What the handlers write: the job table, and the node set and statuses of
\* the registry the manager holds and of the published one.
view ==
    [jobs |-> active_jobs,
     results |-> job_results,
     nodes |-> {n \in RegNodeIds : registry_cache[n].present},
     status |-> [n \in RegNodeIds |-> registry_cache[n].status],
     published |-> {n \in RegNodeIds : registry_ipns[n].present},
     published_status |-> [n \in RegNodeIds |-> registry_ipns[n].status]]

IngestInit ==
    /\ ingest = NoIngest
    /\ ingest_view = [jobs |-> [j \in JobIds |-> "absent"],
                      results |-> [j \in JobIds |-> "None"],
                      nodes |-> {},
                      status |-> [n \in RegNodeIds |-> "none"],
                      published |-> {},
                      published_status |-> [n \in RegNodeIds |-> "none"]]

\* The message just handled is noted; on a first handling, what it left.
ingested(kind, key) ==
    LET same == ingest.kind = kind /\ ingest.key = key IN
    /\ ingest' = [kind |-> kind, key |-> key, repeats |-> IF same THEN 2 ELSE 1]
    /\ ingest_view' = IF same THEN ingest_view ELSE view'

\* The constructor state of the components added to the mesh.
\* The _heartbeat_loop tasks start() can create, in order of creation.
LoopIds == 1..MaxLoops

\* __init__: self.running = False, no task.
LoopInit ==
    /\ coord_running = FALSE
    /\ hb_loops = [l \in LoopIds |-> "none"]
    /\ hb_beats = {}

\* start(): returns at once when self.running; else sets it and creates a
\* _heartbeat_loop task.
coord_start ==
    IF coord_running
    THEN UNCHANGED loopVars
    ELSE /\ \E l \in LoopIds : hb_loops[l] = "none"
         /\ LET l == CHOOSE x \in LoopIds :
                        hb_loops[x] = "none" /\ \A y \in 1..(x - 1) : hb_loops[y] # "none"
            IN  hb_loops' = [hb_loops EXCEPT ![l] = "created"]
         /\ coord_running' = TRUE
         /\ hb_beats' = {}

\* stop(): self.running = False; the tasks are left alone.
coord_stop ==
    /\ coord_running' = FALSE
    /\ UNCHANGED <<hb_loops, hb_beats>>

\* _heartbeat_loop, one turn of a task that was just created or wakes from
\* its sleep: the test of self.running, then publish and sleep, or the end.
heartbeat_loop(l) ==
    /\ hb_loops[l] \in {"created", "sleeping"}
    /\ IF coord_running
       THEN /\ hb_loops' = [hb_loops EXCEPT ![l] = "sleeping"]
            /\ hb_beats' = hb_beats \cup {l}
       ELSE /\ hb_loops' = [hb_loops EXCEPT ![l] = "ended"]
            /\ hb_beats' = hb_beats \ {l}
    /\ UNCHANGED coord_running

SideInit == AgentInit /\ CoordInit /\ cancel_sent = -1 /\ PoolInit /\ ExecInit
            /\ IngestInit /\ WaitInit /\ LoopInit

----------------------------------------------------------------------------
(* Specifications: one component runs, the others stay as constructed. *)

NextOrch ==
    \/ SubmitJob /\ UNCHANGED <<queueVars, cacheVars, rmVars, daemonVars, engineVars, meshVars>>
    \/ ExecuteJobStart /\ UNCHANGED <<queueVars, cacheVars, rmVars, daemonVars, engineVars, meshVars>>
    \/ ExecuteJobFinish /\ UNCHANGED <<queueVars, cacheVars, rmVars, daemonVars, engineVars, meshVars>>
    \/ CancelJob /\ UNCHANGED <<queueVars, cacheVars, rmVars, daemonVars, engineVars, meshVars>>
    \/ HandleJobUpdate /\ UNCHANGED <<queueVars, cacheVars, rmVars, daemonVars, engineVars, meshVars>>

\* An empty cache directory.
NoFiles == model_file = [m \in ModelIds |-> -1]

InitOrch == OrchInit /\ QueueInit /\ CacheIdle /\ NoFiles /\ RMInit /\ DaemonInit
            /\ ChainIdle /\ CollabIdle /\ RegistryInit /\ RateInit /\ SideInit

SpecOrch == InitOrch /\ [][NextOrch]_vars

Enqueue == \E p \in Priorities : enqueue(enq_count + 1, p)

Dequeue == dequeue

NextQueue ==
    \/ Enqueue /\ UNCHANGED <<orchVars, cacheVars, rmVars, daemonVars, engineVars, meshVars>>
    \/ Dequeue /\ UNCHANGED <<orchVars, cacheVars, rmVars, daemonVars, engineVars, meshVars>>

InitQueue == OrchInit /\ QueueInit /\ CacheIdle /\ NoFiles /\ RMInit /\ DaemonInit
            /\ ChainIdle /\ CollabIdle /\ RegistryInit /\ RateInit /\ SideInit

SpecQueue == InitQueue /\ [][NextQueue]_vars

GetModelBegin == \E t \in CacheTasks, m \in ModelIds : get_model_begin(t, m)

GetModelEnd == \E t \in CacheTasks : get_model_end(t)

EvictIfNeeded == evict_call

DequeueCall == dequeue_call

DequeueWake == dequeue_wake

EnqueueNotify == \E p \in Priorities : enqueue_notify(enq_count + 1, p)

WaitRest == <<orchVars, cacheVars, rmVars, daemonVars, engineVars, registryVars,
              rateVars, agentVars, coordVars, pipeVars, poolVars, execVars,
              ingestVars, loopVars>>

NextWait ==
    \/ DequeueCall /\ UNCHANGED WaitRest
    \/ DequeueWake /\ UNCHANGED WaitRest
    \/ EnqueueNotify /\ UNCHANGED WaitRest

InitWait == InitQueue

\* The event loop runs a task whose wait was notified.
SpecWait ==
    /\ InitWait
    /\ [][NextWait]_vars
    /\ WF_vars(DequeueWake /\ UNCHANGED WaitRest)

NextCache ==
    \/ GetModelBegin /\ UNCHANGED <<orchVars, queueVars, rmVars, daemonVars, engineVars, meshVars>>
    \/ GetModelEnd /\ UNCHANGED <<orchVars, queueVars, rmVars, daemonVars, engineVars, meshVars>>
    \/ EvictIfNeeded /\ UNCHANGED <<orchVars, queueVars, rmVars, daemonVars, engineVars, meshVars>>

InitCache == OrchInit /\ QueueInit /\ CacheInit /\ RMInit /\ DaemonInit
            /\ ChainIdle /\ CollabIdle /\ RegistryInit /\ RateInit /\ SideInit

SpecCache == InitCache /\ [][NextCache]_vars

HostLoad == \E mem \in MemoryReadings, cpu \in CpuReadings : host_load(mem, cpu)

CanAcceptJob == rm_can_accept

ReserveResources == rm_reserve

ReleaseResources == rm_release

NextRM ==
    \/ HostLoad /\ UNCHANGED <<orchVars, queueVars, cacheVars, daemonVars, engineVars, meshVars>>
    \/ CanAcceptJob /\ UNCHANGED <<orchVars, queueVars, cacheVars, daemonVars, engineVars, meshVars>>
    \/ ReserveResources /\ UNCHANGED <<orchVars, queueVars, cacheVars, daemonVars, engineVars, meshVars>>
    \/ ReleaseResources /\ UNCHANGED <<orchVars, queueVars, cacheVars, daemonVars, engineVars, meshVars>>

InitRM == OrchInit /\ QueueInit /\ CacheIdle /\ NoFiles /\ RMInit /\ DaemonInit
            /\ ChainIdle /\ CollabIdle /\ RegistryInit /\ RateInit /\ SideInit

SpecRM == InitRM /\ [][NextRM]_vars

\* The host's load under the daemon: a memory reading that can_accept_job
\* accepts and one that it refuses.
DaemonHostLoad ==
    /\ \E mem \in {10, 58} : host_load(mem, 50)
    /\ submit_result' = "none"

DaemonSubmitJob == \E j \in DaemonJobIds, p \in Priorities : daemon_submit_job(j, p)

ProcessJobsDequeue == process_jobs_dequeue

ProcessJobsFinish == \E ok \in BOOLEAN : process_jobs_finish(ok)

DaemonCancelJob == \E j \in DaemonJobIds : daemon_cancel_job(j)

NextDaemon ==
    \/ DaemonHostLoad /\ UNCHANGED <<orchVars, queueVars, cacheVars, daemon_jobs, dispatcher_job, cancel_queued, resubmits, total_jobs, engineVars, meshVars>>
    \/ DaemonSubmitJob /\ UNCHANGED <<orchVars, cacheVars, engineVars, meshVars>>
    \/ ProcessJobsDequeue /\ UNCHANGED <<orchVars, cacheVars, engineVars, meshVars>>
    \/ ProcessJobsFinish /\ UNCHANGED <<orchVars, cacheVars, engineVars, meshVars>>
    \/ DaemonCancelJob /\ UNCHANGED <<orchVars, cacheVars, engineVars, meshVars>>

InitDaemon == OrchInit /\ QueueInit /\ CacheIdle /\ NoFiles /\ RMInit /\ DaemonInit
            /\ ChainIdle /\ CollabIdle /\ RegistryInit /\ RateInit /\ SideInit

SpecDaemon == InitDaemon /\ [][NextDaemon]_vars

\* Seconds a child takes to die once signalled; -1: it outlives the wait.
DiesAfter == -1..term_join_timeout

RunInferenceStart == \E timeout \in AgentTimeouts : run_inference_start(timeout)

PollIteration == \E slept \in {0, 1} : poll_iteration(slept)

TimeoutTerminate == \E dies_after \in DiesAfter : timeout_terminate(dies_after)

TimeoutKill == \E dies_after \in DiesAfter : timeout_kill(dies_after)

RunInferenceFinally == \E dies_after \in DiesAfter : run_inference_finally(dies_after)

AgentWorkerPut == \E item \in {"result", "error"} : agent_worker_put(item)

AgentWorkerExit == agent_worker_exit

AgentRest == <<orchVars, queueVars, cacheVars, rmVars, daemonVars, engineVars,
               registryVars, rateVars, coordVars, pipeVars, poolVars, execVars,
               lateVars>>

CoordTick == coord_tick

HandleOrchestratorHeartbeat ==
    \E sender \in PeerIds \cup {SelfId} : handle_orchestrator_heartbeat(sender)

\* The job counts around the threshold.
UpdateJobCount ==
    \E count \in {job_threshold - 1, job_threshold, job_threshold + 1} :
        update_job_count(count)

SelectOrchestratorBegin == select_orchestrator_begin

SelectOrchestratorEnd == select_orchestrator_end

CoordRest == <<queueVars, cacheVars, rmVars, daemonVars, engineVars,
               registryVars, rateVars, agentVars, pipeVars, poolVars, execVars,
               lateVars>>

NextCoord ==
    \/ CoordTick /\ UNCHANGED <<orchVars, CoordRest>>
    \/ HandleOrchestratorHeartbeat /\ UNCHANGED <<orchVars, CoordRest>>
    \/ UpdateJobCount /\ UNCHANGED <<coordVars, CoordRest>>
    \/ SelectOrchestratorBegin /\ UNCHANGED <<orchVars, CoordRest>>
    \/ SelectOrchestratorEnd /\ UNCHANGED <<orchVars, CoordRest>>

\* The peer receives the assignments this orchestrator published.
HandleCoordinationMessage ==
    \E j \in JobIds : handle_coordination_message("job_assignment", SelfId, j)

NextDistribute ==
    \/ SubmitJob /\ UNCHANGED <<coordVars, CoordRest>>
    \/ ExecuteJobStart /\ UNCHANGED <<coordVars, CoordRest>>
    \/ ExecuteJobFinish /\ UNCHANGED <<coordVars, CoordRest>>
    \/ CancelJob /\ UNCHANGED <<coordVars, CoordRest>>
    \/ HandleJobUpdate /\ UNCHANGED <<coordVars, CoordRest>>
    \/ HandleCoordinationMessage /\ UNCHANGED <<orchVars, CoordRest>>

InitDistribute == OrchInit /\ QueueInit /\ CacheIdle /\ NoFiles /\ RMInit /\ DaemonInit
                  /\ ChainIdle /\ CollabIdle /\ RegistryInit /\ RateInit /\ SideInit

\* Messages are delivered and the execute_job tasks run to their end.
SpecDistribute ==
    /\ InitDistribute
    /\ [][NextDistribute]_vars
    /\ WF_vars(ExecuteJobStart /\ UNCHANGED <<coordVars, CoordRest>>)
    /\ WF_vars(ExecuteJobFinish /\ UNCHANGED <<coordVars, CoordRest>>)
    /\ WF_vars(HandleJobUpdate /\ UNCHANGED <<coordVars, CoordRest>>)
    /\ WF_vars(HandleCoordinationMessage /\ UNCHANGED <<orchVars, CoordRest>>)

InitCoord == OrchInit /\ QueueInit /\ CacheIdle /\ NoFiles /\ RMInit /\ DaemonInit
             /\ ChainIdle /\ CollabIdle /\ RegistryInit /\ RateInit /\ SideInit

SpecCoord == InitCoord /\ [][NextCoord]_vars

CoordStart == coord_start

CoordStop == coord_stop

HeartbeatLoop == \E l \in LoopIds : heartbeat_loop(l)

LoopRest == <<orchVars, queueVars, cacheVars, rmVars, daemonVars, engineVars, registryVars, rateVars, agentVars,
              coordVars, pipeVars, poolVars, execVars, ingestVars, waitVars>>

NextLoop ==
    \/ CoordStart /\ UNCHANGED LoopRest
    \/ CoordStop /\ UNCHANGED LoopRest
    \/ HeartbeatLoop /\ UNCHANGED LoopRest

InitLoop == InitCoord

SpecLoop == InitLoop /\ [][NextLoop]_vars

NextAgent ==
    \/ RunInferenceStart /\ UNCHANGED AgentRest
    \/ PollIteration /\ UNCHANGED AgentRest
    \/ TimeoutTerminate /\ UNCHANGED AgentRest
    \/ TimeoutKill /\ UNCHANGED AgentRest
    \/ RunInferenceFinally /\ UNCHANGED AgentRest
    \/ AgentWorkerPut /\ UNCHANGED AgentRest
    \/ AgentWorkerExit /\ UNCHANGED AgentRest

InitAgent == OrchInit /\ QueueInit /\ CacheIdle /\ NoFiles /\ RMInit /\ DaemonInit
             /\ ChainIdle /\ CollabIdle /\ RegistryInit /\ RateInit /\ SideInit

SpecAgent == InitAgent /\ [][NextAgent]_vars

DaemonSide == <<queueVars, cacheVars, rmVars, daemonVars>>

ChainedExecute == chained_execute

ChainedSend == chained_send

ChainedStepOk == \E r \in StepResults, save_ok \in BOOLEAN : chained_step_ok(r, save_ok)

ChainedStepError == chained_step_error

NextChained ==
    \/ ChainedExecute /\ UNCHANGED <<orchVars, DaemonSide, collabVars, meshVars>>
    \/ ChainedSend /\ UNCHANGED <<orchVars, DaemonSide, collabVars, meshVars>>
    \/ ChainedStepOk /\ UNCHANGED <<orchVars, DaemonSide, collabVars, meshVars>>
    \/ ChainedStepError /\ UNCHANGED <<orchVars, DaemonSide, collabVars, meshVars>>

InitChained == OrchInit /\ QueueInit /\ CacheIdle /\ NoFiles /\ RMInit /\ DaemonInit
               /\ ChainInit /\ CollabIdle /\ RegistryInit /\ RateInit /\ SideInit

SpecChained == InitChained /\ [][NextChained]_vars

\* The job whose pipeline the engine runs.
PipelineJob == 1

\* The submitted spec as validate_spec sees it.
PipelineJobSpec ==
    [pattern |-> "chained", items |-> Len(ch_spec.pipeline), has_target |-> TRUE,
     has_method |-> FALSE, numbered |-> chained_validate_spec(ch_spec)]

\* submit_job of the chained spec, kept local.
PipelineSubmit == submit_job(PipelineJob, PipelineJobSpec, TRUE, FALSE)

\* execute_job: RUNNING, then pattern_engine.execute.
PipelineStart == \E r \in BOOLEAN, d \in BOOLEAN :
                    execute_job_start(PipelineJob, TRUE, r, d)

\* The engine runs inside the execute_job task.
PipelineEngine ==
    /\ exec_task[PipelineJob] = "engine"
    /\ \/ ChainedExecute
       \/ ChainedSend
       \/ ChainedStepOk
       \/ ChainedStepError

\* pattern_engine.execute returned or raised: execute_job goes on.
PipelineFinish ==
    /\ ch_status \in {"returned", "raised"}
    /\ \E r \in BOOLEAN, d \in BOOLEAN :
          execute_job_finish(PipelineJob,
                             IF ch_status = "returned" THEN "ok" ELSE "engine_error",
                             r, d)

\* cancel_job comes in while the job is RUNNING and a step is with its
\* daemon.
PipelineCancel ==
    /\ active_jobs[PipelineJob] = "RUNNING"
    /\ ch_status = "awaiting"
    /\ cancel_sent = -1
    /\ cancel_job(PipelineJob)
    /\ cancel_sent' = Len(ch_sent)

PipeRest == <<DaemonSide, collabVars, registryVars, rateVars, agentVars, coordVars,
              poolVars, execVars, lateVars>>

NextPipeline ==
    \/ PipelineSubmit /\ UNCHANGED <<chainVars, pipeVars, PipeRest>>
    \/ PipelineStart /\ UNCHANGED <<chainVars, pipeVars, PipeRest>>
    \/ PipelineEngine /\ UNCHANGED <<orchVars, pipeVars, PipeRest>>
    \/ PipelineFinish /\ UNCHANGED <<chainVars, pipeVars, PipeRest>>
    \/ PipelineCancel /\ UNCHANGED <<chainVars, PipeRest>>

InitPipeline == OrchInit /\ QueueInit /\ CacheIdle /\ NoFiles /\ RMInit /\ DaemonInit
                /\ ChainInit /\ CollabIdle /\ RegistryInit /\ RateInit /\ SideInit

SpecPipeline == InitPipeline /\ [][NextPipeline]_vars

GetChannel == \E endpoint \in Endpoints : get_channel(endpoint)

ReturnChannel == \E channel \in Channels : return_channel(channel)

CleanupIdleConnections == cleanup_idle_connections

ChannelBreaks == \E channel \in Channels : channel_breaks(channel)

PoolTick == pool_tick

PoolRest == <<orchVars, DaemonSide, engineVars, registryVars, rateVars, agentVars,
              coordVars, pipeVars, execVars, lateVars>>

NextPool ==
    \/ GetChannel /\ UNCHANGED PoolRest
    \/ ReturnChannel /\ UNCHANGED PoolRest
    \/ CleanupIdleConnections /\ UNCHANGED PoolRest
    \/ ChannelBreaks /\ UNCHANGED PoolRest
    \/ PoolTick /\ UNCHANGED PoolRest

InitPool == OrchInit /\ QueueInit /\ CacheIdle /\ NoFiles /\ RMInit /\ DaemonInit
            /\ ChainIdle /\ CollabIdle /\ RegistryInit /\ RateInit /\ SideInit

SpecPool == InitPool /\ [][NextPool]_vars

ExecuteJobBegin == \E job_spec \in ExecSpecs : execute_job_begin(job_spec)

ExecuteJobData == \E model_ok \in BOOLEAN : execute_job_data(model_ok)

ExecRest == <<orchVars, DaemonSide, engineVars, registryVars, rateVars, agentVars,
              coordVars, pipeVars, poolVars, lateVars>>

NextExecute ==
    \/ ExecuteJobBegin /\ UNCHANGED ExecRest
    \/ ExecuteJobData /\ UNCHANGED ExecRest

InitExecute == OrchInit /\ QueueInit /\ CacheIdle /\ NoFiles /\ RMInit /\ DaemonInit
               /\ ChainIdle /\ CollabIdle /\ RegistryInit /\ RateInit /\ SideInit

SpecExecute == InitExecute /\ [][NextExecute]_vars

CollabExecute == collab_execute

CollabNodeDone == \E n \in NodeIdx, ok \in BOOLEAN : collab_node_done(n, ok)

CollabFinish == \E save_ok \in BOOLEAN : collab_finish(save_ok)

NextCollab ==
    \/ CollabExecute /\ UNCHANGED <<orchVars, DaemonSide, chainVars, meshVars>>
    \/ CollabNodeDone /\ UNCHANGED <<orchVars, DaemonSide, chainVars, meshVars>>
    \/ CollabFinish /\ UNCHANGED <<orchVars, DaemonSide, chainVars, meshVars>>

InitCollab == OrchInit /\ QueueInit /\ CacheIdle /\ NoFiles /\ RMInit /\ DaemonInit
              /\ ChainIdle /\ CollabInit /\ RegistryInit /\ RateInit /\ SideInit

SpecCollab == InitCollab /\ [][NextCollab]_vars

\* The node that registers and sends heartbeats in SpecRegistry.
LiveNodeIds == {"n1"}

\* The NodeInfo a daemon registers with: fresh, with or without a first
\* heartbeat.
RegisteredInfos ==
    [present : {TRUE}, status : NodeStatuses, reputation : {1},
     data_types : {{"medical"}}, location : {"eu"},
     last_heartbeat : {-1, reg_now}]

Tick == tick

RegisterNode == \E n \in LiveNodeIds, info \in RegisteredInfos,
                   load_ok \in BOOLEAN, publish_ok \in BOOLEAN :
                   register_node(n, info, load_ok, publish_ok)

\* The daemon's heartbeat carries status active; "none" is a heartbeat
\* without a status key.
HandleHeartbeat == \E n \in LiveNodeIds, status \in {"active", "none"},
                      load_ok \in BOOLEAN, publish_ok \in BOOLEAN :
                      handle_heartbeat(n, status, load_ok, publish_ok)

CleanupStaleNodes == \E load_ok \in BOOLEAN : cleanup_stale_nodes(load_ok)

GetActiveNodes == \E load_ok \in BOOLEAN : get_active_nodes(load_ok)

\* The draws random.choices may make for a request of count nodes.
Draws(count) == {<<>>} \cup [1..count -> RegNodeIds]

SelectNodes == \E count \in {1, 2}, load_ok \in BOOLEAN :
                  \E selected \in Draws(count) :
                     select_nodes([NoRequirements EXCEPT !.count = count],
                                  load_ok, selected)

\* The job tables an orchestrator can hold, with the tasks and counters
\* that go with them, and a topic that holds every message.
JobTables ==
    {t \in [JobIds -> [state : {"absent"} \cup JobStates, result : {"None", EngineResult}]] :
        \A j \in JobIds : t[j].result = EngineResult => t[j].state \in {"COMPLETED", "FAILED"}}

IngestJobEvent ==
    \E m \in JobEvents :
        /\ handle_job_update(m)
        /\ UNCHANGED registryVars
        /\ ingested("event", m)

IngestHeartbeat ==
    \E n \in LiveNodeIds, status \in {"active", "inactive", "none"},
       load_ok \in BOOLEAN, publish_ok \in BOOLEAN :
        /\ handle_heartbeat(n, status, load_ok, publish_ok)
        /\ UNCHANGED orchVars
        /\ ingested("heartbeat", <<n, status, load_ok, publish_ok>>)

IngestRegisterNode ==
    /\ \E n \in LiveNodeIds, info \in RegisteredInfos,
          load_ok \in BOOLEAN, publish_ok \in BOOLEAN :
          register_node(n, info, load_ok, publish_ok)
    /\ ingest' = NoIngest
    /\ UNCHANGED <<ingest_view, orchVars>>

IngestRest == <<DaemonSide, engineVars, rateVars, agentVars, coordVars, pipeVars,
                poolVars, execVars, laterVars>>

NextIngest ==
    \/ IngestJobEvent /\ UNCHANGED IngestRest
    \/ IngestHeartbeat /\ UNCHANGED IngestRest
    \/ IngestRegisterNode /\ UNCHANGED IngestRest

InitIngest ==
    /\ \E t \in JobTables :
          /\ active_jobs = [j \in JobIds |-> t[j].state]
          /\ job_results = [j \in JobIds |-> t[j].result]
          /\ exec_task = [j \in JobIds |->
                            IF t[j].state = "absent" THEN "none"
                            ELSE IF t[j].state = "PENDING" THEN "created"
                            ELSE IF t[j].state = "RUNNING" THEN "engine"
                            ELSE "done"]
          /\ saved_specs = {j \in JobIds : t[j].state # "absent"}
          /\ local_job_count = Cardinality({j \in JobIds : t[j].state # "absent"})
          /\ submits = Cardinality({j \in JobIds : t[j].state # "absent"})
    /\ job_updates = JobEvents
    /\ assigned = {}
    /\ last_submit = NoSubmit
    /\ publish_calls = [j \in JobIds |-> <<>>]
    /\ QueueInit /\ CacheIdle /\ NoFiles /\ RMInit /\ DaemonInit
    /\ ChainIdle /\ CollabIdle /\ RegistryInit /\ RateInit /\ SideInit

SpecIngest == InitIngest /\ [][NextIngest]_vars

NextRegistry ==
    \/ Tick /\ UNCHANGED <<orchVars, DaemonSide, engineVars, rateVars, sideVars>>
    \/ RegisterNode /\ UNCHANGED <<orchVars, DaemonSide, engineVars, rateVars, sideVars>>
    \/ HandleHeartbeat /\ UNCHANGED <<orchVars, DaemonSide, engineVars, rateVars, sideVars>>
    \/ CleanupStaleNodes /\ UNCHANGED <<orchVars, DaemonSide, engineVars, rateVars, sideVars>>
    \/ GetActiveNodes /\ UNCHANGED <<orchVars, DaemonSide, engineVars, rateVars, sideVars>>
    \/ SelectNodes /\ UNCHANGED <<orchVars, DaemonSide, engineVars, rateVars, sideVars>>

InitRegistry == OrchInit /\ QueueInit /\ CacheIdle /\ NoFiles /\ RMInit /\ DaemonInit
                /\ ChainIdle /\ CollabIdle /\ RegistryInit /\ RateInit /\ SideInit

SpecRegistry == InitRegistry /\ [][NextRegistry]_vars

\* Two daemons that register and send heartbeats to one manager.
UpsertNodeIds == {"n1", "n2"}

\* The NodeInfo a daemon registers with, before its first heartbeat.
UpsertInfo ==
    [present |-> TRUE, status |-> "active", reputation |-> 1,
     data_types |-> {"medical"}, location |-> "eu", last_heartbeat |-> -1]

UpsertTick == reg_now < MaxUpsertTime /\ tick

UpsertRegisterNode == \E n \in UpsertNodeIds, load_ok \in BOOLEAN, publish_ok \in BOOLEAN :
                         register_node(n, UpsertInfo, load_ok, publish_ok)

UpsertHeartbeat == \E n \in UpsertNodeIds, status \in {"active", "none"},
                      load_ok \in BOOLEAN, publish_ok \in BOOLEAN :
                      handle_heartbeat(n, status, load_ok, publish_ok)

NextUpsert ==
    \/ UpsertTick /\ UNCHANGED <<orchVars, DaemonSide, engineVars, rateVars, sideVars>>
    \/ UpsertRegisterNode /\ UNCHANGED <<orchVars, DaemonSide, engineVars, rateVars, sideVars>>
    \/ UpsertHeartbeat /\ UNCHANGED <<orchVars, DaemonSide, engineVars, rateVars, sideVars>>

InitUpsert == InitRegistry

SpecUpsert == InitUpsert /\ [][NextUpsert]_vars

\* A registry as registrations and heartbeats can have left it, just
\* published and cached.
SelectorInit ==
    /\ reg_now = 0
    /\ registry_cache \in [RegNodeIds -> {NoNode} \cup
                              {i \in NodeInfos(0) : i.last_heartbeat = 0}]
    /\ cache_loaded = TRUE
    /\ last_update = 0
    /\ registry_ipns = registry_cache
    /\ ipns_published = TRUE
    /\ discovered_nodes = [n \in RegNodeIds |-> -1]
    /\ last_sweep = 0
    /\ active_result = NoActiveResult
    /\ select_result = NoSelectResult
    /\ marked_inactive = {}

SelectNodesFor == \E requirements \in Requirements :
                     \E selected \in Draws(requirements.count) :
                        /\ select_result = NoSelectResult
                        /\ select_nodes(requirements, TRUE, selected)

NextSelector ==
    \/ SelectNodesFor /\ UNCHANGED <<orchVars, DaemonSide, engineVars, rateVars, sideVars>>

InitSelector == OrchInit /\ QueueInit /\ CacheIdle /\ NoFiles /\ RMInit /\ DaemonInit
                /\ ChainIdle /\ CollabIdle /\ SelectorInit /\ RateInit /\ SideInit

SpecSelector == InitSelector /\ [][NextSelector]_vars

RateTick == rate_tick

CheckRateLimit == \E identifier \in Identifiers, cost \in {1} :
                     check_rate_limit(identifier, cost)

ResetBucket == \E identifier \in Identifiers : reset_bucket(identifier)

NextRate ==
    \/ RateTick /\ UNCHANGED <<orchVars, DaemonSide, engineVars, registryVars, sideVars>>
    \/ CheckRateLimit /\ UNCHANGED <<orchVars, DaemonSide, engineVars, registryVars, sideVars>>
    \/ ResetBucket /\ UNCHANGED <<orchVars, DaemonSide, engineVars, registryVars, sideVars>>

InitRate == OrchInit /\ QueueInit /\ CacheIdle /\ NoFiles /\ RMInit /\ DaemonInit
            /\ ChainIdle /\ CollabIdle /\ RegistryInit /\ RateInit /\ SideInit

SpecRate == InitRate /\ [][NextRate]_vars

----------------------------------------------------------------------------
(* Claims *)

\* C1: once a job's state is COMPLETED, FAILED or CANCELLED, no step of the
\* orchestrator (execute_job, cancel_job, update_job_state, an ingested job
\* event) changes it to another state.
C1_TerminalAbsorbing ==
    [][\A j \in JobIds :
          active_jobs[j] \in TerminalStates => active_jobs'[j] = active_jobs[j]]_vars

\* C4: whenever no get_model call is in progress (so after any get_model or
\* evict_if_needed call has completed), the sizes of the cached entries sum
\* to at most max_cache_size.
C4_CacheBound ==
    (\A t \in CacheTasks : cache_task[t].pc = "idle") =>
        current_size(cached_models) <= max_cache_size

C6_Admission == Cardinality(unfinished_jobs) <= max_concurrent_jobs

\* C7: ResourceManager.active_jobs stays within 0..max_concurrent_jobs
\* under any sequence of reserve_resources and release_resources calls.
C7_ActiveJobsRange == rm_active_jobs >= 0 /\ rm_active_jobs <= max_concurrent_jobs

\* A step that was sent with an input_source other than client_data.
FromPrevious(s) == s.input_source # "client_data"

\* C8 (as claimed): every step sent to a daemon carries the job's input_data
\* when its input_source is client_data, and otherwise the result that
\* step k-1 returned.
C8_StepInputAsClaimed ==
    \A i \in 1..Len(ch_sent) :
        LET s == ch_sent[i] IN
        IF FromPrevious(s)
        THEN s.step >= 2 /\ Len(ch_results) >= s.step - 1
             /\ s.input_data = ch_results[s.step - 1].result
        ELSE s.input_data = ch_spec.input_data

\* C8 (amended): every step sent to a daemon carries the job's input_data
\* when its input_source is client_data; otherwise step k >= 2 carries the
\* result that step k-1 returned and step 1 carries the empty dict.
C8_StepInput ==
    \A i \in 1..Len(ch_sent) :
        LET s == ch_sent[i] IN
        IF FromPrevious(s)
        THEN IF s.step >= 2
             THEN Len(ch_results) >= s.step - 1
                  /\ s.input_data = ch_results[s.step - 1].result
             ELSE s.input_data = "empty_dict"
        ELSE s.input_data = ch_spec.input_data

\* C8 witness: a pipeline ran to its end in which step 1 took the previous
\* output, step 2 the client's input and step 3 the previous output, and
\* steps 1 and 2 returned different results.
C8_Witness ==
    /\ ch_status = "returned"
    /\ Len(ch_sent) = 3
    /\ FromPrevious(ch_sent[1])
    /\ ~FromPrevious(ch_sent[2])
    /\ FromPrevious(ch_sent[3])
    /\ ch_spec.input_data = "client_input"
    /\ ch_results[1].result # ch_results[2].result

\* C9: under rollback_and_retry the pipeline fails on a step only after
\* that step failed more than max_retries times, so a step that fails once
\* and then succeeds does not fail the pipeline.
C9_RetryBeforeFail ==
    (ch_status = "raised" /\ ch_failures > 0
        /\ ch_spec.on_failure = "rollback_and_retry")
    => ch_failures > ch_spec.max_retries

\* C10: execute returns an aggregated result only when at least one node's
\* subjob succeeded.
C10_OneSuccessNeeded ==
    co_status = "returned" => valid_results(co_results) # {}

\* Rank of a band in the priority order: high before normal before low.
BandRank(b) == CASE b = "high" -> 1 [] b = "normal" -> 2 [] b = "low" -> 3

\* C2: a dequeue never serves a band while a band of higher priority held a
\* job at the time of the call.
C2_QueuePriority ==
    last_dequeue.band # "none" =>
        \A b \in BandSet :
            BandRank(b) < BandRank(last_dequeue.band) => last_dequeue.before[b] = <<>>

\* C2 witness: a dequeue served the normal band, which held two jobs, while
\* the low band held a job too.
C2_Witness ==
    /\ last_dequeue.band = "normal"
    /\ last_dequeue.before["low"] # <<>>
    /\ Len(last_dequeue.before["normal"]) >= 2

IsPrefix(s, t) == Len(s) <= Len(t) /\ \A i \in 1..Len(s) : s[i] = t[i]

\* C3: within each band the jobs dequeued so far are, in order, the first
\* jobs that were enqueued into that band.
C3_FifoWithinBand ==
    \A b \in BandSet : IsPrefix(deq_order[b], enq_order[b])

\* C3 witness: two jobs of one band were dequeued while a job enqueued
\* between them went to another band.
C3_Witness ==
    \E b \in BandSet :
        /\ Len(deq_order[b]) >= 2
        /\ deq_order[b][2] > deq_order[b][1] + 1

meets_pattern_rules(spec) ==
    /\ spec.items >= 2
    /\ spec.pattern \in {"collaborative", "comparative"}
         => spec.has_target /\ spec.has_method
    /\ spec.pattern = "chained" => spec.numbered

\* C12: submit_job rejects a spec as INVALID_SPEC exactly when the spec does
\* not meet the rules of its pattern.
C12_ValidationIffRules ==
    last_submit.result \in {"INVALID_SPEC", "job_id"} =>
        (last_submit.result = "INVALID_SPEC"
            <=> ~meets_pattern_rules(last_submit.spec))

\* C13: get_active_nodes never returns a node whose last_heartbeat is older
\* than heartbeat_timeout at the time of the call, whatever its status.
C13_ActiveNodesFresh ==
    \A x \in active_result.nodes :
        x.last_heartbeat # -1
            => ~(active_result.now - x.last_heartbeat > heartbeat_timeout)

\* C13 witness: get_active_nodes has just run on a registry that holds a
\* node of status active whose heartbeat is older than heartbeat_timeout.
C13_Witness ==
    /\ active_result.now = reg_now
    /\ \E n \in RegNodeIds :
          /\ registry_cache[n].present
          /\ registry_cache[n].status = "active"
          /\ registry_cache[n].last_heartbeat # -1
          /\ reg_now - registry_cache[n].last_heartbeat > heartbeat_timeout
          /\ \A x \in active_result.nodes : x.node_id # n

\* C14: select_nodes never returns a node whose last heartbeat is older
\* than heartbeat_timeout at the time of the call.
C14_SelectedNodesFresh ==
    select_result.status = "returned" =>
        \A i \in 1..Len(select_result.node_ids) :
            LET node == select_result.registry[select_result.node_ids[i]] IN
            node.last_heartbeat # -1
                => ~(select_result.now - node.last_heartbeat > heartbeat_timeout)

\* Eligibility as the claim states it: status active, reputation at least
\* reputation_min, the data type among data_types when given, the location
\* equal when given.
C15_Eligible(node, requirements) ==
    /\ node.present
    /\ node.status = "active"
    /\ node.reputation >= requirements.reputation_min
    /\ requirements.data_type = "none"
         \/ requirements.data_type \in node.data_types
    /\ requirements.location = "none"
         \/ node.location = requirements.location

\* C15: select_nodes returns exactly min(count, number of eligible nodes)
\* distinct node ids, each of an eligible node, and the empty list when no
\* node is eligible.
C15_SelectCount ==
    select_result # NoSelectResult =>
        LET ids == select_result.node_ids
            eligible == {n \in RegNodeIds :
                           C15_Eligible(select_result.registry[n],
                                        select_result.requirements)}
            count == select_result.requirements.count
        IN  /\ select_result.status = "returned"
            /\ Len(ids) = IF count < Cardinality(eligible) THEN count
                          ELSE Cardinality(eligible)
            /\ \A i, j \in 1..Len(ids) : i # j => ids[i] # ids[j]
            /\ \A i \in 1..Len(ids) : ids[i] \in eligible

\* Requests of cost 1 accepted for an identifier at the times s..e.
RECURSIVE AcceptedIn(_, _, _)
AcceptedIn(identifier, s, e) ==
    IF s > e THEN 0
    ELSE accepted_at[identifier][s] + AcceptedIn(identifier, s + 1, e)

C17_RetryAfterHonoured ==
    (last_check.identifier \in Identifiers /\ ~last_check.allowed) =>
        /\ last_check.retry_after > 0
        /\ refill(last_check.tokens, rate_of(last_check.identifier),
                  burst_of(last_check.identifier),
                  last_check.retry_after * TicksPerSecond)
             >= last_check.cost * TokenScale

\* C18: starting from a fresh bucket, an identifier has as many
\* back-to-back requests accepted as its own burst size, override or
\* default: a denial that ends a run of requests on a new bucket comes after
\* burst_of(identifier) acceptances.
C18_OverrideBurst ==
    (/\ last_check.identifier \in Identifiers
     /\ ~last_check.allowed
     /\ last_check.at = rl_now
     /\ AcceptedIn(last_check.identifier, 0, rl_now - 1) = 0)
        => accepted_at[last_check.identifier][rl_now]
             >= burst_of(last_check.identifier)

\* C19: a job that cancel_job was called for while it was queued is in no
\* band of the queue, is not the job the dispatcher has dequeued, and has
\* the status cancelled.
C19_CancelQueued ==
    \A j \in cancel_queued :
        /\ \A b \in BandSet : j \notin SeqRange(queues[b])
        /\ dispatcher_job # j
        /\ daemon_jobs[j] = "cancelled"

DaemonTerminalStates == {"completed", "failed", "cancelled"}

\* C20: a daemon job whose status is completed, failed or cancelled never
\* changes status again, and a job becomes running only from queued.
C20_DaemonLifecycle ==
    [][\A j \in DaemonJobIds :
          /\ daemon_jobs[j] \in DaemonTerminalStates
                => daemon_jobs'[j] = daemon_jobs[j]
          /\ (daemon_jobs'[j] = "running" /\ daemon_jobs[j] # "running")
                => daemon_jobs[j] = "queued"]_vars

\* C21: run_inference returns or raises within timeout + 5 seconds of its
\* start, whatever the child does.
C21_ReturnsWithinGrace ==
    agent_pc = "returned" => agent_returned_at <= agent_timeout + term_join_timeout

\* C22: when run_inference has returned or raised, the child is dead and
\* waited for, and job_id is not in active_agents.
C22_ChildReaped ==
    agent_pc = "returned" => (child = "reaped" /\ ~active_agents)

\* C23: select_orchestrator_for_job returns another orchestrator iff the
\* local job count exceeds the threshold and some peer is active; it never
\* returns its own id, nor a peer whose last heartbeat is older than the
\* heartbeat timeout.
C23_SelectOrchestrator ==
    coord_selected.result # "pending" =>
        /\ coord_selected.result \in PeerIds
              <=> /\ coord_selected.count > job_threshold
                  /\ \E p \in PeerIds :
                         /\ coord_selected.ages[p] >= 0
                         /\ coord_selected.ages[p] < orchestrator_heartbeat_timeout
        /\ coord_selected.result # SelfId
        /\ coord_selected.result \in PeerIds
              => coord_selected.ages[coord_selected.result]
                   <= orchestrator_heartbeat_timeout

\* C24: every job submit_job accepted, kept local or assigned to a peer,
\* eventually reaches a terminal state.
C24_AcceptedJobsTerminate ==
    \A j \in JobIds :
        (active_jobs[j] = "PENDING") ~> (active_jobs[j] \in TerminalStates)

\* The event an execute_job that ended in this state has to have published.
event_of_state(state) ==
    IF state = "COMPLETED" THEN "completed"
    ELSE IF state = "FAILED" THEN "failed"
    ELSE "none"

\* C25: an execute_job that ends has called publish_job_event exactly
\* once, with completed when it left the job COMPLETED and with failed when
\* it left it FAILED.
C25_OneTerminalEvent ==
    [][\A j \in JobIds :
          (exec_task[j] # "done" /\ exec_task'[j] = "done")
             => publish_calls'[j] = <<event_of_state(active_jobs'[j])>>]_vars

\* C26: once cancel_job was called on the running chained job, no further
\* step is dispatched and the job does not end COMPLETED.
C26_CancelStopsPipeline ==
    cancel_sent >= 0 =>
        /\ Len(ch_sent) = cancel_sent
        /\ active_jobs[PipelineJob] # "COMPLETED"

\* C27: a node that sent heartbeats and was marked inactive by the sweeper
\* stays inactive in the registry the manager holds until a heartbeat from
\* it (or its registration) is taken in.
C27_StaysInactive ==
    \A n \in marked_inactive :
        (cache_loaded /\ registry_cache[n].last_heartbeat # -1)
            => registry_cache[n].status = "inactive"

\* C28: the result of a collaborative job in which some node answered
\* carries the aggregation method of the submitted spec, and node_count is
\* the number of per-node results that were aggregated.
C28_MethodOfSpec ==
    (co_status = "returned" /\ valid_results(co_results) # {})
        => /\ co_final.method = co_spec.method
           /\ co_final.node_count = Cardinality(valid_results(co_results))

\* C29: the pool of every endpoint holds at most max_connections channels;
\* a get_channel call that met an available healthy pooled channel of its
\* endpoint reused one; a channel it created for the pool went into a pool
\* within the bound, and a temporary channel is in no pool.
C29_PoolBounded ==
    /\ \A e \in Endpoints : Len(pools[e]) <= max_connections
    /\ last_get.reusable => last_get.kind = "reused"
    /\ last_get.kind = "temporary" =>
          /\ ~last_get.pooled
          /\ \A e \in Endpoints : ~in_pool(pools[e], last_get.channel)

\* C30: when execute_job has its model, the agent is given the job's
\* input_data whenever the job has one; the data source is addressed only
\* when the job has no input_data; a job with neither fails.
C30_InputDataFirst ==
    (ex_pc = "done" /\ ex_outcome.error # "model_error")
        => /\ truthy(ex_spec.input_data)
                => ex_outcome.agent_input = ex_spec.input_data
           /\ ex_outcome.source_addressed => ~truthy(ex_spec.input_data)
           /\ (~truthy(ex_spec.input_data) /\ ~truthy(ex_spec.data_source))
                => ex_outcome.error = "ValueError"

C32_RejectedSubmitNoEffect ==
    [][/\ submit_result' \in {"ResourceError", "QueueFullError"}
          => UNCHANGED <<queues, daemon_jobs, total_jobs>>
       /\ submit_result' # "none"
          => /\ (submit_result' = "ResourceError")
                  = ~can_accept_job(rm_active_jobs, host_memory_gb, host_cpu_percent)
             /\ (submit_result' = "QueueFullError")
                  = (/\ can_accept_job(rm_active_jobs, host_memory_gb, host_cpu_percent)
                     /\ size(queues) >= max_size)]_vars

\* C32 witness: a submit met a full queue while jobs were tracked, and the
\* job it carried is not among them.
C32_Witness ==
    /\ submit_result = "QueueFullError"
    /\ size(queues) >= max_size
    /\ total_jobs >= max_size
    /\ \E j \in DaemonJobIds : daemon_jobs[j] = "absent"

\* The sizes of the first k entries of an eviction order, summed.
RECURSIVE evicted_size(_, _, _)
evicted_size(before, order, k) ==
    IF k = 0 THEN 0
    ELSE before[order[k]].size + evicted_size(before, order, k - 1)

C35_StepsInOrder ==
    /\ [](/\ \A i \in 1..Len(ch_sent) : ch_sent[i].step = i
          /\ \A i \in 1..Len(ch_results) : ch_results[i].step = i
          /\ Len(ch_results) <= Len(ch_sent)
          /\ Len(ch_sent) <= Len(ch_results) + 1
          /\ (ch_spec.on_failure = "fail_fast" /\ ch_failures > 0)
                => /\ ch_status = "raised"
                   /\ Len(ch_sent) = Len(ch_results) + 1)
    /\ [][ch_status = "raised" => ch_sent' = ch_sent]_vars

\* C35 witness: step 2 of a three-step fail_fast pipeline failed after step 1
\* had returned; step 3 was not sent.
C35_Witness ==
    /\ ch_status = "raised"
    /\ ch_spec.on_failure = "fail_fast"
    /\ ch_failures = 1
    /\ Len(ch_spec.pipeline) = 3
    /\ Len(ch_results) = 1
    /\ Len(ch_sent) = 2
    /\ ch_sent[2].step = 2

\* C36: at most one job of the daemon has status running, and it is the job
\* process_jobs is executing, so the next job is marked running only after
\* the previous one was marked completed or failed.
C36_OneRunningJob ==
    /\ Cardinality({j \in DaemonJobIds : daemon_jobs[j] = "running"}) <= 1
    /\ \A j \in DaemonJobIds : daemon_jobs[j] = "running" => dispatcher_job = j

\* C36 witness: a second job runs after the first was marked finished, while
\* a third waits in the queue.
C36_Witness ==
    \E a, b, c \in DaemonJobIds :
        /\ daemon_jobs[a] \in {"completed", "failed"}
        /\ daemon_jobs[b] = "running"
        /\ dispatcher_job = b
        /\ daemon_jobs[c] = "queued"
        /\ size(queues) > 0

\* C37: no step of the registry manager (register_node and
\* update_node_heartbeat are the ones that publish) removes a node from the
\* published registry, whatever the cache's age and the outcome of the read
\* of the published registry.
C37_KeepsOtherNodes ==
    [][\A m \in RegNodeIds :
          registry_ipns[m].present => registry_ipns'[m].present]_vars

\* C38: the result execute_job stored with COMPLETED stays: no step, the
\* handling of a job event included, replaces or clears it.
C38_ResultKept ==
    [][\A j \in JobIds :
          (/\ exec_task[j] = "done"
           /\ active_jobs[j] = "COMPLETED"
           /\ job_results[j] = EngineResult)
             => job_results'[j] = EngineResult]_vars

\* C39: at most one _heartbeat_loop task publishes heartbeats: of the tasks
\* that published since the last start() at most one is still in its loop.
C39_OneHeartbeatLoop ==
    Cardinality({l \in hb_beats : hb_loops[l] = "sleeping"}) <= 1

\* C40: a pooled channel that get_channel returned and that was not returned
\* since is held by one caller only, and it stays in the pool, marked
\* unavailable: no other get_channel returns it and the idle sweep does not
\* remove it.
C40_OneHolder ==
    \A c \in Channels :
        /\ held[c] <= 1
        /\ held[c] = 1 =>
              /\ channel_metadata[c].present
              /\ ~channel_metadata[c].available
              /\ in_pool(pools[channel_metadata[c].endpoint], c)

\* C40 witness: a channel is held for longer than idle_timeout, and a
\* get_channel for its endpoint made meanwhile returned another channel.
C40_Witness ==
    \E c \in Channels :
        /\ held[c] = 1
        /\ pool_now - channel_metadata[c].last_used > idle_timeout
        /\ last_get.channel # c
        /\ last_get.endpoint = channel_metadata[c].endpoint
        /\ channel_metadata[last_get.channel].last_used > channel_metadata[c].last_used

====
